---- MODULE Spec2Model ----
(***************************************************************************)
(* agentsmith-cli: the response normaliser (Analyzer.flattenAgents,        *)
(* RemoteAnalyzer.flattenAgents), the JSONL registry (Registry.build,      *)
(* search, list, get) and the assimilate command that builds it.  An       *)
(* operation that raises to its caller sets threw.                         *)
(*                                                                         *)
(* Strings are sequences of characters, so that toLowerCase, includes and  *)
(* split are computed and not assumed.  A JSON value of unknown shape is a *)
(* tagged record [k |-> <typeof>, v |-> <payload>]; an object's payload is *)
(* a record holding exactly the keys that are present.                     *)
(***************************************************************************)
EXTENDS Integers, Sequences, FiniteSets, TLC

VARIABLES agents, result, file, dryRun, call, out, scored, threw, pc, cmd

vars == <<agents, result, file, dryRun, call, out, scored, threw, pc, cmd>>

----------------------------------------------------------------------------
(* Bounds of the model.                                                    *)

\* number of JSON values (objects, strings, nulls) in one raw agents array,
\* nested ones included
MaxNodes == 3

\* length of the skill list and of the agent list handed to one build
MaxSkills == 2
MaxAgents == 2

\* largest limit a search is given
MaxLimit == 2

\* number of lines of a registry file that was not written by build
MaxLines == 2

\* number of elements of a raw tools array
MaxTools == 2

----------------------------------------------------------------------------
(* JSON values and the JavaScript conversions the code applies to them.    *)

Undef == [k |-> "undefined"]
Null == [k |-> "null"]
Str(s) == [k |-> "string", v |-> s]
Num(n) == [k |-> "number", v |-> n]
Bool(b) == [k |-> "boolean", v |-> b]
Arr(s) == [k |-> "array", v |-> s]
Obj(f) == [k |-> "object", v |-> f]

IsObject(x) == x.k = "object"
IsString(x) == x.k = "string"
IsArray(x) == x.k = "array"

\* "key" in obj
HasKey(o, key) == key \in DOMAIN o.v

\* obj.key : undefined when the key is absent
Field(o, key) == IF HasKey(o, key) THEN o.v[key] ELSE Undef

\* obj.key = val
SetField(o, key, val) ==
    Obj([x \in (DOMAIN o.v) \cup {key} |-> IF x = key THEN val ELSE o.v[x]])

\* ToBoolean: undefined, null, "", 0 and false are falsy
Truthy(x) ==
    CASE x.k = "undefined" -> FALSE
      [] x.k = "null" -> FALSE
      [] x.k = "string" -> x.v /= <<>>
      [] x.k = "number" -> x.v /= 0
      [] x.k = "boolean" -> x.v
      [] OTHER -> TRUE

RECURSIVE JSString(_)
RECURSIVE JoinComma(_)
\* Array.prototype.join(","): null and undefined elements give ""
JoinComma(s) ==
    IF s = <<>> THEN <<>>
    ELSE LET h == IF Head(s).k \in {"null", "undefined"} THEN <<>> ELSE JSString(Head(s))
         IN IF Len(s) = 1 THEN h ELSE h \o <<",">> \o JoinComma(Tail(s))

\* String(x)
JSString(x) ==
    CASE x.k = "string" -> x.v
      [] x.k = "number" -> <<ToString(x.v)>>
      [] x.k = "boolean" -> IF x.v THEN <<"true">> ELSE <<"false">>
      [] x.k = "null" -> <<"null">>
      [] x.k = "undefined" -> <<"undefined">>
      [] x.k = "array" -> JoinComma(x.v)
      [] OTHER -> <<"[object Object]">>

\* String(x) throws a TypeError: ToPrimitive finds the own toString of an
\* object, which no JSON value makes callable, and Object.prototype.valueOf
\* returns the object; an array throws when join converts such an element
RECURSIVE StringThrows(_)
StringThrows(x) ==
    CASE x.k = "object" -> "toString" \in DOMAIN x.v
      [] x.k = "array" ->
            \E i \in 1..Len(x.v) :
                x.v[i].k \notin {"null", "undefined"} /\ StringThrows(x.v[i])
      [] OTHER -> FALSE

\* a ?? b
OrElseNullish(a, b) == IF a.k \in {"undefined", "null"} THEN b ELSE a

\* a || b
OrElse(a, b) == IF Truthy(a) THEN a ELSE b

\* MapString that keeps only the elements that are strings
RECURSIVE MapStringOnlyStrings(_)
MapStringOnlyStrings(s) ==
    IF s = <<>> THEN <<>>
    ELSE (IF IsString(Head(s)) THEN <<Head(s).v>> ELSE <<>>) \o MapStringOnlyStrings(Tail(s))

\* Array.prototype.map
RECURSIVE MapString(_)
MapString(s) == IF s = <<>> THEN <<>> ELSE <<JSString(Head(s))>> \o MapString(Tail(s))

\* a String(...) of the map callback throws
MapStringThrows(s) == \E i \in 1..Len(s) : StringThrows(s[i])

----------------------------------------------------------------------------
(* Analyzer.normalizeTools                                                 *)

\* SplitFirst that splits at a tab as well as at a space
RECURSIVE SplitFirstAnyWhitespace(_)
SplitFirstAnyWhitespace(s) ==
    IF s = <<>> \/ Head(s) = " " \/ Head(s) = "\t" THEN <<>>
    ELSE <<Head(s)>> \o SplitFirstAnyWhitespace(Tail(s))

\* tool.split(" ")[0] : the characters before the first space
RECURSIVE SplitFirst(_)
SplitFirst(s) ==
    IF s = <<>> \/ Head(s) = " " THEN <<>> ELSE <<Head(s)>> \o SplitFirst(Tail(s))

normalizeTool(tool) ==
    IF IsString(tool)
    THEN [name |-> SplitFirst(tool.v), command |-> tool.v, description |-> tool.v]
    ELSE IF tool.k \in {"object", "array"}
    THEN LET nm == IF IsObject(tool) THEN Field(tool, "name") ELSE Undef
             cm == IF IsObject(tool) THEN Field(tool, "command") ELSE Undef
             ds == IF IsObject(tool) THEN Field(tool, "description") ELSE Undef
         IN [name |-> JSString(OrElse(nm, Str(<<"unknown">>))),
             command |-> JSString(OrElse(cm, OrElse(nm, Str(<<>>)))),
             description |-> JSString(OrElse(ds, OrElse(nm, Str(<<>>))))]
    ELSE [name |-> <<"unknown">>, command |-> JSString(tool), description |-> JSString(tool)]

RECURSIVE MapTools(_)
MapTools(s) == IF s = <<>> THEN <<>> ELSE <<normalizeTool(Head(s))>> \o MapTools(Tail(s))

normalizeTools(tools) ==
    IF ~Truthy(tools) \/ ~IsArray(tools) THEN <<>> ELSE MapTools(tools.v)

\* a String(...) of normalizeTools throws
normalizeToolThrows(tool) ==
    /\ IsObject(tool)
    /\ LET nm == Field(tool, "name")
           cm == Field(tool, "command")
           ds == Field(tool, "description")
       IN \/ StringThrows(OrElse(nm, Str(<<"unknown">>)))
          \/ StringThrows(OrElse(cm, OrElse(nm, Str(<<>>))))
          \/ StringThrows(OrElse(ds, OrElse(nm, Str(<<>>))))

normalizeToolsThrows(tools) ==
    IsArray(tools) /\ \E i \in 1..Len(tools.v) : normalizeToolThrows(tools.v[i])

----------------------------------------------------------------------------
(* Analyzer.flattenAgents / RemoteAnalyzer.flattenAgents                   *)

\* IsNested that takes every object for a nested agent
IsNestedAnyObject(subAgent) == IsObject(subAgent)

\* the test that makes an element of subAgents a nested agent
IsNested(subAgent) == IsObject(subAgent) /\ HasKey(subAgent, "name")

\* the marking of a nested agent: isSubAgent = true, parentAgent = agent.name
MarkNested(subAgent, agent) ==
    SetField(SetField(subAgent, "isSubAgent", Bool(TRUE)),
             "parentAgent", Field(agent, "name"))

\* nestedSubAgents: the nested objects of subAgentsArray, marked
RECURSIVE NestedOf(_, _)
NestedOf(arr, agent) ==
    IF arr = <<>> THEN <<>>
    ELSE (IF IsNested(Head(arr)) THEN <<MarkNested(Head(arr), agent)>> ELSE <<>>)
         \o NestedOf(Tail(arr), agent)

\* NamePushed with the string branch lost: a name reference is not retained
NamePushedNoRefs(subAgent) ==
    IF IsObject(subAgent) /\ HasKey(subAgent, "name") THEN <<Field(subAgent, "name")>>
    ELSE <<>>

\* what one element of subAgentsArray pushes on subAgentNames
NamePushed(subAgent) ==
    IF IsNested(subAgent) THEN <<Field(subAgent, "name")>>
    ELSE IF IsString(subAgent) THEN <<subAgent>>
    ELSE <<>>

\* subAgentNames
RECURSIVE NamesOf(_)
NamesOf(arr) ==
    IF arr = <<>> THEN <<>> ELSE NamePushed(Head(arr)) \o NamesOf(Tail(arr))

\* agent.subAgents when it is a non-empty array, else nothing to walk
SubAgentsArray(agent) ==
    LET sa == Field(agent, "subAgents")
    IN IF IsArray(sa) /\ Len(sa.v) > 0 THEN sa.v ELSE <<>>

\* the normalised AgentDefinition of one raw object
Normalize(agent) ==
    LET subAgentNames == NamesOf(SubAgentsArray(agent))
    IN [name |-> JSString(OrElse(Field(agent, "name"), Str(<<"unknown">>))),
        description |-> JSString(OrElse(Field(agent, "description"), Str(<<>>))),
        skills |-> IF IsArray(Field(agent, "skills"))
                   THEN MapString(Field(agent, "skills").v) ELSE <<>>,
        tools |-> normalizeTools(Field(agent, "tools")),
        isSubAgent |-> Truthy(Field(agent, "isSubAgent")),
        parentAgent |-> IF Truthy(Field(agent, "parentAgent"))
                        THEN Str(JSString(Field(agent, "parentAgent"))) ELSE Undef,
        subAgents |-> IF Len(subAgentNames) > 0 THEN Arr(subAgentNames) ELSE Undef,
        triggers |-> IF IsArray(Field(agent, "triggers"))
                     THEN MapString(Field(agent, "triggers").v) ELSE <<>>,
        sourceDir |-> IF Truthy(Field(agent, "sourceDir"))
                      THEN Str(JSString(Field(agent, "sourceDir"))) ELSE Undef]

\* a String(...) of the object literal of normalizedAgent throws
NormalizeThrows(agent) ==
    \/ StringThrows(OrElse(Field(agent, "name"), Str(<<"unknown">>)))
    \/ StringThrows(OrElse(Field(agent, "description"), Str(<<>>)))
    \/ IsArray(Field(agent, "skills")) /\ MapStringThrows(Field(agent, "skills").v)
    \/ normalizeToolsThrows(Field(agent, "tools"))
    \/ Truthy(Field(agent, "parentAgent")) /\ StringThrows(Field(agent, "parentAgent"))
    \/ IsArray(Field(agent, "triggers")) /\ MapStringThrows(Field(agent, "triggers").v)
    \/ Truthy(Field(agent, "sourceDir")) /\ StringThrows(Field(agent, "sourceDir"))

\* PushAgent with the two pushes exchanged: the children before their parent
PushAgentLast(normalizedAgent, nestedFlat) == nestedFlat \o <<normalizedAgent>>

\* result.push(normalizedAgent); result.push(...flattenAgents(nestedSubAgents))
PushAgent(normalizedAgent, nestedFlat) == <<normalizedAgent>> \o nestedFlat

RECURSIVE flattenAgents(_)
flattenAgents(rawAgents) ==
    IF rawAgents = <<>> THEN <<>>
    ELSE LET rawAgent == Head(rawAgents)
         IN (IF ~Truthy(rawAgent) \/ rawAgent.k \notin {"object", "array"}
             THEN <<>>
             ELSE IF IsArray(rawAgent)
             THEN <<Normalize(Obj([x \in {} |-> Undef]))>>
             ELSE LET nestedSubAgents == NestedOf(SubAgentsArray(rawAgent), rawAgent)
                  IN PushAgent(Normalize(rawAgent),
                               IF Len(nestedSubAgents) > 0
                               THEN flattenAgents(nestedSubAgents) ELSE <<>>))
            \o flattenAgents(Tail(rawAgents))

\* flattenAgents is left by a TypeError: the normalisation of an object of
\* the array, or of a nested agent below it, throws
RECURSIVE flattenThrows(_)
flattenThrows(rawAgents) ==
    /\ rawAgents /= <<>>
    /\ \/ LET rawAgent == Head(rawAgents)
          IN /\ IsObject(rawAgent)
             /\ \/ NormalizeThrows(rawAgent)
                \/ flattenThrows(NestedOf(SubAgentsArray(rawAgent), rawAgent))
       \/ flattenThrows(Tail(rawAgents))

----------------------------------------------------------------------------
(* The raw agents arrays the normaliser is applied to: every array holding *)
(* at most MaxNodes JSON values in all, where an element is a string, null *)
(* or an object, and an object's subAgents is again such an array.  Every  *)
(* object carries its position in the input as its description, which the  *)
(* normaliser copies to the record it emits.                               *)

Digit == <<"1", "2", "3", "4", "5", "6", "7", "8">>

NoFields == [x \in {} |-> Undef]

\* the fields an object of the input supplies besides subAgents
RawShapes ==
    { ("name" :> Str(<<"a">>)),
      ("name" :> Str(<<"b">>)) @@ ("isSubAgent" :> Bool(FALSE))
                               @@ ("parentAgent" :> Str(<<"z">>)),
      NoFields,
      ("name" :> Str(<<>>)),
      ("name" :> Num(5)) }

RawAtoms == {Str(<<"b">>), Null}

MkRaw(fields, kids) ==
    Obj(IF kids = <<>> THEN fields ELSE fields @@ ("subAgents" :> Arr(kids)))

\* the arrays holding exactly n values
RawArrays[n \in 0..MaxNodes] ==
    IF n = 0 THEN {<<>>}
    ELSE UNION { { <<t>> \o rest :
                     t \in (IF k = 1 THEN RawAtoms ELSE {})
                           \cup {MkRaw(f, kids) : f \in RawShapes, kids \in RawArrays[k - 1]},
                     rest \in RawArrays[n - k] } : k \in 1..n }

\* description := position, in every object of the array
RECURSIVE TagFrom(_, _, _)
TagFrom(arr, prefix, i) ==
    IF arr = <<>> THEN <<>>
    ELSE LET x == Head(arr)
             here == prefix \o <<Digit[i]>>
             tagged == IF ~IsObject(x) THEN x
                       ELSE LET d == SetField(x, "description", Str(here))
                            IN IF HasKey(x, "subAgents")
                               THEN SetField(d, "subAgents",
                                             Arr(TagFrom(Field(x, "subAgents").v, here, 1)))
                               ELSE d
         IN <<tagged>> \o TagFrom(Tail(arr), prefix, i + 1)

RawInputs == UNION { {TagFrom(a, <<>>, 1) : a \in RawArrays[n]} : n \in 0..MaxNodes }

----------------------------------------------------------------------------
(* The normaliser as a state machine: parseAnalysisResponse hands the      *)
(* parsed agents array to flattenAgents once.                              *)

Idle == [op |-> "none"]

\* no command is running
NoCommand == [target |-> "none"]

InitFlatten ==
    /\ agents \in RawInputs
    /\ result = <<>>
    /\ call = Idle
    /\ file = [exists |-> FALSE, content |-> <<>>]
    /\ dryRun = FALSE
    /\ out = <<>>
    /\ scored = <<>>
    /\ threw = FALSE
    /\ pc = "none"
    /\ cmd = NoCommand

Flatten ==
    /\ call = Idle
    /\ call' = [op |-> "flattenAgents"]
    /\ threw' = flattenThrows(agents)
    /\ result' = IF threw' THEN <<>> ELSE flattenAgents(agents)
    /\ UNCHANGED <<agents, file, dryRun, out, scored, pc, cmd>>

NextFlatten == Flatten

SpecFlatten == InitFlatten /\ [][NextFlatten]_vars

----------------------------------------------------------------------------
(* Properties of the normaliser.  A position is the sequence of indices    *)
(* that leads from the input array to a value: <<2, 1>> is the first       *)
(* element of the subAgents array of the second element of the input.      *)

Positions == UNION { [1..n -> 1..MaxNodes] : n \in 1..MaxNodes }

\* the subAgents array of a raw value, as the input gives it
RawChildren(x) ==
    IF x.k = "object" /\ "subAgents" \in DOMAIN x.v /\ x.v["subAgents"].k = "array"
    THEN x.v["subAgents"].v ELSE <<>>

RECURSIVE ValueAt(_, _)
\* the raw value at a position, Undef when there is none
ValueAt(arr, p) ==
    IF p[1] \notin DOMAIN arr THEN Undef
    ELSE IF Len(p) = 1 THEN arr[p[1]]
    ELSE ValueAt(RawChildren(arr[p[1]]), Tail(p))

Prefix(p, n) == [i \in 1..n |-> p[i]]
Parent(p) == Prefix(p, Len(p) - 1)

\* an object with a name key
NamedObject(x) == x.k = "object" /\ "name" \in DOMAIN x.v

\* the positions that are to produce a record: an object of the input array,
\* or a named object nested in the subAgents of a position that produces one
Producing(arr) ==
    { p \in Positions :
        /\ ValueAt(arr, Prefix(p, 1)).k = "object"
        /\ \A n \in 2..Len(p) : NamedObject(ValueAt(arr, Prefix(p, n))) }

\* depth-first pre-order: a position comes before its descendants, and
\* before everything below or after a later sibling of one of its ancestors
Before(p, q) ==
    \/ Len(p) < Len(q) /\ Prefix(q, Len(p)) = p
    \/ \E i \in 1..Len(p) :
          /\ i <= Len(q)
          /\ Prefix(p, i - 1) = Prefix(q, i - 1)
          /\ p[i] < q[i]

TagOf(p) == [i \in 1..Len(p) |-> Digit[p[i]]]
PositionOf(tag) == [i \in 1..Len(tag) |-> CHOOSE d \in 1..Len(Digit) : Digit[d] = tag[i]]

Flattened == call = [op |-> "flattenAgents"]

\* the records emitted for a position
RecordsOf(p) == { i \in 1..Len(result) : result[i].description = TagOf(p) }

\* C1: the records come in depth-first pre-order of the input: one record
\* for every producing position, the record of a position standing after
\* exactly the records of the positions that come before it in pre-order.
C1_PreOrder ==
    Flattened =>
        LET E == Producing(agents)
        IN /\ Len(result) = Cardinality(E)
           /\ \A p \in E :
                  result[1 + Cardinality({q \in E : Before(q, p)})].description = TagOf(p)

\* a parent with a nested child, followed by a second top-level agent
C1_Witness ==
    /\ Flattened
    /\ Len(result) = 3
    /\ result[1].description = <<"1">>
    /\ result[2].description = <<"1", "1">>
    /\ result[3].description = <<"2">>

\* C2: every record produced from a nested object has isSubAgent = true and
\* a parentAgent equal to the name of the record emitted for its enclosing
\* node.
C2_ParentLink ==
    Flattened =>
        \A p \in Producing(agents) :
            Len(p) > 1 =>
                \A i \in RecordsOf(p) : \A j \in RecordsOf(Parent(p)) :
                    /\ result[i].isSubAgent = TRUE
                    /\ result[i].parentAgent = Str(result[j].name)

\* the names subAgents is to hold: the string elements and the names of the
\* named objects, in input order
Referenced(x) == x.k = "string" \/ NamedObject(x)
ExpectedNames(arr) ==
    LET kept == SelectSeq(arr, Referenced)
    IN [i \in 1..Len(kept) |-> IF kept[i].k = "string" THEN kept[i] ELSE kept[i].v["name"]]

\* C3: the subAgents of the record of a node lists the string elements and
\* the names of the object elements of the node's subAgents, in input
\* order; every record comes from an object, and the records that come from
\* the elements of a node's subAgents are as many as its named objects.
C3_NameReferences ==
    Flattened =>
        /\ \A i \in 1..Len(result) :
               ValueAt(agents, PositionOf(result[i].description)).k = "object"
        /\ \A p \in Producing(agents) :
               LET arr == RawChildren(ValueAt(agents, p))
                   names == ExpectedNames(arr)
               IN /\ \A i \in RecordsOf(p) :
                         result[i].subAgents = IF names = <<>> THEN Undef ELSE Arr(names)
                  /\ Cardinality({ i \in 1..Len(result) :
                                     /\ Len(result[i].description) = Len(p) + 1
                                     /\ Parent(PositionOf(result[i].description)) = p })
                       = Len(SelectSeq(arr, NamedObject))

\* subAgents: ["b", {name: "a"}] : two names, one record besides the parent
C3_Witness ==
    /\ Flattened
    /\ Len(agents) = 1
    /\ RawChildren(agents[1]) /= <<>>
    /\ RawChildren(agents[1])[1] = Str(<<"b">>)
    /\ Len(result) = 2
    /\ result[1].subAgents = Arr(<<Str(<<"b">>), Str(<<"a">>)>>)
    /\ result[2].name = <<"a">>

----------------------------------------------------------------------------
(* Registry: the entries and the registry file.                            *)
(*                                                                         *)
(* A record of the program (SkillDefinition, AgentDefinition,              *)
(* RegistryEntry) holds exactly the keys whose value is not undefined.     *)
(* The text JSON.stringify gives for an entry is the sequence of its       *)
(* <<key, value>> members in the order of the object literal; the file     *)
(* content is a sequence of such members and of newline characters.        *)

NL == <<"\n">>

KeyOrder == <<"type", "name", "file", "description", "category", "triggers",
              "isSubAgent", "parentAgent", "subAgents">>

\* { key: value } for a value that may be undefined
Opt(rec, key) == IF key \in DOMAIN rec THEN (key :> rec[key]) ELSE NoFields

\* the entry build pushes for a skill
SkillEntry(skill) ==
    [type |-> "skill",
     name |-> skill.name,
     file |-> <<".github/skills/">> \o skill.name \o <<"/SKILL.md">>,
     description |-> skill.description,
     category |-> skill.category,
     triggers |-> skill.triggers]

\* AgentEntry with the file of a skill
AgentEntrySkillFile(agent) ==
    [type |-> "agent",
     name |-> agent.name,
     file |-> <<".github/skills/">> \o agent.name \o <<"/SKILL.md">>,
     description |-> agent.description,
     triggers |-> agent.triggers,
     isSubAgent |-> agent.isSubAgent]
    @@ Opt(agent, "parentAgent") @@ Opt(agent, "subAgents")

\* the entry build pushes for an agent
AgentEntry(agent) ==
    [type |-> "agent",
     name |-> agent.name,
     file |-> <<".github/agents/">> \o agent.name \o <<"/agent.yaml">>,
     description |-> agent.description,
     triggers |-> agent.triggers,
     isSubAgent |-> agent.isSubAgent]
    @@ Opt(agent, "parentAgent") @@ Opt(agent, "subAgents")

RECURSIVE SkillEntries(_)
SkillEntries(skills) ==
    IF skills = <<>> THEN <<>> ELSE <<SkillEntry(Head(skills))>> \o SkillEntries(Tail(skills))

RECURSIVE AgentEntries(_)
AgentEntries(as) ==
    IF as = <<>> THEN <<>> ELSE <<AgentEntry(Head(as))>> \o AgentEntries(Tail(as))

\* of the entries of one name, the last
RECURSIVE KeepLast(_)
KeepLast(entries) ==
    IF entries = <<>> THEN <<>>
    ELSE (IF \E j \in 2..Len(entries) : entries[j].name = Head(entries).name
          THEN <<>> ELSE <<Head(entries)>>)
         \o KeepLast(Tail(entries))

\* BuildEntries in which a later record of a name overwrites the earlier one
BuildEntriesLastWins(args) ==
    KeepLast(SkillEntries(args.skills)
             \o (IF "agents" \in DOMAIN args THEN AgentEntries(args.agents) ELSE <<>>))

\* the entries array of build: the skills, then the agents when given
BuildEntries(args) ==
    SkillEntries(args.skills)
    \o (IF "agents" \in DOMAIN args THEN AgentEntries(args.agents) ELSE <<>>)

\* JSON.stringify(e): the members that are present, in literal order
RECURSIVE StringifyFrom(_, _)
StringifyFrom(e, keys) ==
    IF keys = <<>> THEN <<>>
    ELSE (IF Head(keys) \in DOMAIN e THEN << <<Head(keys), e[Head(keys)]>> >> ELSE <<>>)
         \o StringifyFrom(e, Tail(keys))

Stringify(e) == StringifyFrom(e, KeyOrder)

\* the text of a line that is JSON but no object, and of one that is no JSON
NullText == << <<"null">> >>
NumberText == << <<"5">> >>
BrokenText == << <<"{">> >>

\* what JSON.parse gives for the texts null and 5
JsonNull == [json |-> "null"]
JsonNumber == [json |-> "number"]

\* JSON.parse(line) returns, and does not throw a SyntaxError
IsJSON(line) ==
    \/ line \in {NullText, NumberText}
    \/ \A i \in 1..Len(line) : Len(line[i]) = 2

\* JSON.parse(line) of a line that is JSON
Parse(line) ==
    IF line = NullText THEN JsonNull
    ELSE IF line = NumberText THEN JsonNumber
    ELSE [key \in {line[i][1] : i \in 1..Len(line)} |->
            line[CHOOSE i \in 1..Len(line) : line[i][1] = key][2]]

\* entries.map((e) => JSON.stringify(e)).join("\n") + "\n"
RECURSIVE JoinLines(_)
JoinLines(entries) ==
    IF entries = <<>> THEN <<>>
    ELSE IF Len(entries) = 1 THEN Stringify(Head(entries))
    ELSE Stringify(Head(entries)) \o <<NL>> \o JoinLines(Tail(entries))

Content(entries) == JoinLines(entries) \o <<NL>>

\* String.prototype.trim, the newline being the only whitespace of a file
RECURSIVE TrimStart(_)
TrimStart(text) == IF text /= <<>> /\ Head(text) = NL THEN TrimStart(Tail(text)) ELSE text

RECURSIVE TrimEnd(_)
TrimEnd(text) ==
    IF text /= <<>> /\ text[Len(text)] = NL
    THEN TrimEnd(SubSeq(text, 1, Len(text) - 1)) ELSE text

Trim(text) == TrimEnd(TrimStart(text))

\* cur followed by text, split at the newlines: text.split("\n") when cur
\* is empty; the k-th piece lies between the (k-1)-th and the k-th newline
SplitLines(text, cur) ==
    LET all == cur \o text
        breaks == {i \in 1..Len(all) : all[i] = NL}
        Break(k) == IF k = 0 THEN 0
                    ELSE IF k > Cardinality(breaks) THEN Len(all) + 1
                    ELSE CHOOSE i \in breaks : Cardinality({j \in breaks : j < i}) = k - 1
    IN [k \in 1..(Cardinality(breaks) + 1) |-> SubSeq(all, Break(k - 1) + 1, Break(k) - 1)]

NonEmpty(line) == line /= <<>>

\* content.trim().split("\n").filter(Boolean)
Lines(content) == SelectSeq(SplitLines(Trim(content), <<>>), NonEmpty)

RECURSIVE ParseAll(_)
ParseAll(lines) ==
    IF lines = <<>> THEN <<>> ELSE <<Parse(Head(lines))>> \o ParseAll(Tail(lines))

\* the entries read back from the file: lines.map((line) => JSON.parse(line))
ReadEntries(f) == ParseAll(Lines(f.content))

NoFile == [exists |-> FALSE, content |-> <<>>]

\* fs.readFile(registryPath) returns: the file is there and may be read
CanRead(f) == f.exists /\ "unreadable" \notin DOMAIN f

\* the try block of list and of search is left by a throw of readFile or of
\* JSON.parse
ReadFails(f) ==
    \/ ~CanRead(f)
    \/ LET lines == Lines(f.content) IN \E i \in 1..Len(lines) : ~IsJSON(lines[i])

\* WriteFile that appends to what the file holds
WriteFileAppend(f, content) == [exists |-> TRUE, content |-> f.content \o content]

\* fs.writeFile(registryPath, content): the whole file is replaced
WriteFile(f, content) == [exists |-> TRUE, content |-> content]

----------------------------------------------------------------------------
(* Registry.search: scoring, ordering, truncation.                         *)

DefaultLimit == 10

LowerChar(c) == CASE c = "A" -> "a" [] c = "B" -> "b" [] OTHER -> c

\* toLowerCase that leaves the letters as they are
toLowerCaseNone(s) == s

toLowerCase(s) == [i \in 1..Len(s) |-> LowerChar(s[i])]

\* s.includes(q)
includes(s, q) ==
    \E i \in 0..(Len(s) - Len(q)) : SubSeq(s, i + 1, i + Len(q)) = q

ExactNamePoints == 100
NamePoints == 50
DescriptionPoints == 30
TriggerPoints == 20
ExactTriggerPoints == 40
CategoryPoints == 10
RootAgentPoints == 5

\* TriggerScore that counts the triggers once for the entry
TriggerScoreOnce(triggers, queryLower) ==
    IF \E i \in 1..Len(triggers) : toLowerCase(triggers[i]) = queryLower
    THEN TriggerPoints + ExactTriggerPoints
    ELSE IF \E i \in 1..Len(triggers) : includes(toLowerCase(triggers[i]), queryLower)
    THEN TriggerPoints
    ELSE 0

\* the loop over entry.triggers
RECURSIVE TriggerScore(_, _)
TriggerScore(triggers, queryLower) ==
    IF triggers = <<>> THEN 0
    ELSE (IF includes(toLowerCase(Head(triggers)), queryLower) THEN TriggerPoints ELSE 0)
         + (IF toLowerCase(Head(triggers)) = queryLower THEN ExactTriggerPoints ELSE 0)
         + TriggerScore(Tail(triggers), queryLower)

\* ExactNameScore without the points of an exact match
ExactNameScoreNone(entry, queryLower) == 0

\* the exact-name term of the score
ExactNameScore(entry, queryLower) ==
    IF toLowerCase(entry.name) = queryLower THEN ExactNamePoints ELSE 0

\* RootBoost given to every agent
RootBoostAnyAgent(entry) == IF entry.type = "agent" THEN RootAgentPoints ELSE 0

\* the root-agent boost
RootBoost(entry) ==
    IF entry.type = "agent" /\ ~("isSubAgent" \in DOMAIN entry /\ entry.isSubAgent)
    THEN RootAgentPoints ELSE 0

\* the score of one entry
Score(entry, queryLower) ==
    ExactNameScore(entry, queryLower)
    + (IF includes(toLowerCase(entry.name), queryLower) THEN NamePoints ELSE 0)
    + (IF includes(toLowerCase(entry.description), queryLower) THEN DescriptionPoints ELSE 0)
    + TriggerScore(entry.triggers, queryLower)
    + (IF "category" \in DOMAIN entry /\ includes(toLowerCase(entry.category), queryLower)
       THEN CategoryPoints ELSE 0)
    + RootBoost(entry)

\* entries.map((entry) => ({ entry, score }))
RECURSIVE ScoreAll(_, _)
ScoreAll(entries, queryLower) ==
    IF entries = <<>> THEN <<>>
    ELSE <<[entry |-> Head(entries), score |-> Score(Head(entries), queryLower)]>>
         \o ScoreAll(Tail(entries), queryLower)

\* options?.type, options?.limit ?? 10
TypeFilterOf(options) == IF "type" \in DOMAIN options THEN <<options.type>> ELSE <<>>
LimitOf(options) == IF "limit" \in DOMAIN options THEN options.limit ELSE DefaultLimit

\* FilterType that keeps every entry
FilterTypeNone(entries, typeFilter) == entries

\* entries.filter((e) => e.type === typeFilter), when a type is given
FilterType(entries, typeFilter) ==
    IF typeFilter = <<>> THEN entries
    ELSE LET Keep(e) == "type" \in DOMAIN e /\ e.type = typeFilter[1]
         IN SelectSeq(entries, Keep)

\* .filter((s) => s.score > 0)
Positive(s) == s.score > 0
FilterPositive(sc) == SelectSeq(sc, Positive)

\* InsertDesc that puts x before the elements of equal score
RECURSIVE InsertDescUnstable(_, _)
InsertDescUnstable(x, sorted) ==
    IF sorted = <<>> THEN <<x>>
    ELSE IF Head(sorted).score > x.score
         THEN <<Head(sorted)>> \o InsertDescUnstable(x, Tail(sorted))
         ELSE <<x>> \o sorted

\* the place of x in a list sorted by descending score: past every element
\* the comparator b.score - a.score does not put after x
RECURSIVE InsertDesc(_, _)
InsertDesc(x, sorted) ==
    IF sorted = <<>> THEN <<x>>
    ELSE IF Head(sorted).score >= x.score
         THEN <<Head(sorted)>> \o InsertDesc(x, Tail(sorted))
         ELSE <<x>> \o sorted

\* .sort((a, b) => b.score - a.score) : Array.prototype.sort is stable
RECURSIVE SortFrom(_, _)
SortFrom(sc, sorted) ==
    IF sc = <<>> THEN sorted ELSE SortFrom(Tail(sc), InsertDesc(Head(sc), sorted))

SortDesc(sc) == SortFrom(sc, <<>>)

\* .slice(0, limit)
Slice(s, limit) ==
    LET end == IF limit < 0 THEN (IF Len(s) + limit < 0 THEN 0 ELSE Len(s) + limit)
               ELSE IF limit > Len(s) THEN Len(s) ELSE limit
    IN SubSeq(s, 1, end)

\* .map((s) => s.entry)
RECURSIVE EntriesOf(_)
EntriesOf(sc) == IF sc = <<>> THEN <<>> ELSE <<Head(sc).entry>> \o EntriesOf(Tail(sc))

\* the scoring callback throws a TypeError: entry.name, entry.description
\* or entry.triggers is undefined, or entry is null
ScoreThrows(entry) ==
    \/ entry = JsonNull
    \/ "name" \notin DOMAIN entry
    \/ "description" \notin DOMAIN entry
    \/ "triggers" \notin DOMAIN entry

\* the filter or the scoring of search throws inside the try block
SearchThrows(f, options) ==
    LET all == ReadEntries(f)
        typeFilter == TypeFilterOf(options)
        kept == FilterType(all, typeFilter)
    IN \/ typeFilter /= <<>> /\ \E i \in 1..Len(all) : all[i] = JsonNull
       \/ \E i \in 1..Len(kept) : ScoreThrows(kept[i])

\* the local `scored` of search; nothing is scored when the try block is
\* left by a throw
Scored(f, query, options) ==
    IF ReadFails(f) THEN <<>>
    ELSE IF SearchThrows(f, options) THEN <<>>
    ELSE ScoreAll(FilterType(ReadEntries(f), TypeFilterOf(options)), toLowerCase(query))

\* what search returns, from its local `scored`
Ranked(sc, options) == EntriesOf(Slice(SortDesc(FilterPositive(sc)), LimitOf(options)))

\* ListResult that returns the lines that parse
ListResultParseable(f) ==
    IF ~CanRead(f) THEN <<>> ELSE ParseAll(SelectSeq(Lines(f.content), IsJSON))

\* what list returns
ListResult(f) == IF ReadFails(f) THEN <<>> ELSE ReadEntries(f)

\* the entries of list whose name is the name asked for
Hits(entries, name) ==
    {i \in 1..Len(entries) : "name" \in DOMAIN entries[i] /\ entries[i].name = name}

\* GetResult that compares the names without regard to case
GetResultAnyCase(f, name) ==
    LET entries == ListResult(f)
        hits == {i \in 1..Len(entries) :
                    "name" \in DOMAIN entries[i]
                    /\ toLowerCase(entries[i].name) = toLowerCase(name)}
    IN IF hits = {} THEN <<>>
       ELSE <<entries[CHOOSE i \in hits : \A j \in hits : i <= j]>>

\* what get returns: the first entry of that name, as a list of at most one
GetResult(f, name) ==
    LET entries == ListResult(f)
        hits == Hits(entries, name)
    IN IF hits = {} THEN <<>>
       ELSE <<entries[CHOOSE i \in hits : \A j \in hits : i <= j]>>

\* the callback of find throws a TypeError: e.name is read of a null entry
\* that find reaches, no entry before it having the name
GetThrows(f, name) ==
    LET entries == ListResult(f)
        hits == Hits(entries, name)
    IN \E i \in 1..Len(entries) : entries[i] = JsonNull /\ \A j \in hits : i < j

----------------------------------------------------------------------------
(* The records handed to build, and the arguments of the read operations.  *)

RECURSIVE SeqsUpTo(_, _)
\* the sequences over S of length at most n
SeqsUpTo(S, n) ==
    IF n = 0 THEN {<<>>}
    ELSE LET shorter == SeqsUpTo(S, n - 1)
         IN shorter \cup {Append(q, x) : q \in {r \in shorter : Len(r) = n - 1}, x \in S}

Repeat(x, n) == [i \in 1..n |-> x]

SkillPool ==
    { [name |-> <<"b", "a">>, description |-> <<>>, sourceDir |-> <<"s">>,
       patterns |-> <<>>, triggers |-> <<>>, category |-> <<"b">>, examples |-> <<>>],
      [name |-> <<"b">>, description |-> <<"a">>, sourceDir |-> <<"s">>,
       patterns |-> <<>>, triggers |-> << <<"a">>, <<"A">> >>,
       category |-> <<"b">>, examples |-> <<>>] }

RootAgent ==
    [name |-> <<"a">>, description |-> <<>>, skills |-> <<>>, tools |-> <<>>,
     isSubAgent |-> FALSE, subAgents |-> << <<"A">> >>, triggers |-> <<>>]

SubAgent ==
    [name |-> <<"A">>, description |-> <<"b">>, skills |-> << <<"b">> >>,
     tools |-> <<>>, isSubAgent |-> TRUE, parentAgent |-> <<"a">>,
     triggers |-> <<>>, sourceDir |-> <<"s">>]

AgentPool == {RootAgent, SubAgent}

\* the argument lists of build: agents is optional; one agent list is longer
\* than the default limit of search
BuildArgs ==
    LET skillLists == SeqsUpTo(SkillPool, MaxSkills)
        agentLists == SeqsUpTo(AgentPool, MaxAgents) \cup {Repeat(RootAgent, DefaultLimit + 1)}
    IN {[skills |-> sk] : sk \in skillLists}
       \cup {[skills |-> sk, agents |-> ag] : sk \in skillLists, ag \in agentLists}

Queries == {<<>>, <<"a">>, <<"A">>, <<"b">>, <<"a", "b">>}

Types == {"skill", "agent"}

SearchOptions ==
    {NoFields}
    \cup {[type |-> t] : t \in Types}
    \cup {[limit |-> n] : n \in 0..MaxLimit}
    \cup {[type |-> t, limit |-> n] : t \in Types, n \in 0..MaxLimit}

GetNames == {<<"a">>, <<"B">>, <<"a", "b">>, <<"z">>}

----------------------------------------------------------------------------
(* The registry as a state machine: one Registry on one path.  build       *)
(* rewrites the file unless the Registry was constructed for a dry run;    *)
(* list and get read it.                                                   *)

InitRegistry ==
    /\ file = NoFile
    /\ dryRun \in BOOLEAN
    /\ call = Idle
    /\ out = <<>>
    /\ scored = <<>>
    /\ agents = <<>>
    /\ result = <<>>
    /\ threw = FALSE
    /\ pc = "none"
    /\ cmd = NoCommand

\* Build that writes the file whatever dryRun is
BuildIgnoringDryRun(args) ==
    /\ call' = [op |-> "build", args |-> args]
    /\ file' = WriteFile(file, Content(BuildEntries(args)))
    /\ out' = <<>>
    /\ threw' = FALSE
    /\ UNCHANGED <<dryRun, scored, agents, result, pc, cmd>>

\* BuildWriteFails with the rejection of fs.writeFile caught inside build
BuildWriteFailsSwallowed(args) ==
    /\ ~dryRun
    /\ call' = [op |-> "build", args |-> args, failed |-> TRUE]
    /\ file' \in {file, WriteFile(file, <<>>)}
    /\ out' = <<>>
    /\ threw' = FALSE
    /\ UNCHANGED <<dryRun, scored, agents, result, pc, cmd>>

\* build when fs.writeFile rejects: the await is in no try block, so build
\* rejects; the file is as it was, or truncated by the failed write
BuildWriteFails(args) ==
    /\ ~dryRun
    /\ call' = [op |-> "build", args |-> args, failed |-> TRUE]
    /\ file' \in {file, WriteFile(file, <<>>)}
    /\ out' = <<>>
    /\ threw' = TRUE
    /\ UNCHANGED <<dryRun, scored, agents, result, pc, cmd>>

Build(args) ==
    /\ call' = [op |-> "build", args |-> args]
    /\ file' = IF dryRun THEN file ELSE WriteFile(file, Content(BuildEntries(args)))
    /\ out' = <<>>
    /\ threw' = FALSE
    /\ UNCHANGED <<dryRun, scored, agents, result, pc, cmd>>

List ==
    /\ call' = [op |-> "list"]
    /\ out' = ListResult(file)
    /\ threw' = FALSE
    /\ UNCHANGED <<file, dryRun, scored, agents, result, pc, cmd>>

Get(name) ==
    /\ call' = [op |-> "get", name |-> name]
    /\ threw' = GetThrows(file, name)
    /\ out' = IF threw' THEN <<>> ELSE GetResult(file, name)
    /\ UNCHANGED <<file, dryRun, scored, agents, result, pc, cmd>>

NextRegistry ==
    \/ \E args \in BuildArgs : Build(args)
    \/ List
    \/ \E name \in GetNames : Get(name)

SpecRegistry == InitRegistry /\ [][NextRegistry]_vars

----------------------------------------------------------------------------
(* search as a state machine: the registry file is one a build has         *)
(* written, or is absent, and search is applied to it.                     *)

InitSearch ==
    /\ file \in {NoFile} \cup {WriteFile(NoFile, Content(BuildEntries(args))) : args \in BuildArgs}
    /\ dryRun = FALSE
    /\ call = Idle
    /\ out = <<>>
    /\ scored = <<>>
    /\ agents = <<>>
    /\ result = <<>>
    /\ threw = FALSE
    /\ pc = "none"
    /\ cmd = NoCommand

\* searchCommand constructs a Registry and calls search once
Search(query, options) ==
    /\ call = Idle
    /\ call' = [op |-> "search", query |-> query, options |-> options]
    /\ scored' = Scored(file, query, options)
    /\ out' = IF ~file.exists THEN <<>> ELSE Ranked(scored', options)
    /\ threw' = FALSE
    /\ UNCHANGED <<file, dryRun, agents, result, pc, cmd>>

NextSearch == \E query \in Queries, options \in SearchOptions : Search(query, options)

SpecSearch == InitSearch /\ [][NextSearch]_vars

----------------------------------------------------------------------------
(* Properties of search.                                                   *)

Searched == call.op = "search"

Min(a, b) == IF a < b THEN a ELSE b

\* the arguments of the search just made
TheQuery == toLowerCase(call.query)
TypeGiven == "type" \in DOMAIN call.options
LimitGiven == "limit" \in DOMAIN call.options

\* the entries of the file, in file order
FileEntries == ListResult(file)

\* the scores of a list of entries for the query
ScoresOf(all) == [i \in 1..Len(all) |-> Score(all[i], TheQuery)]

\* the candidates: of the asked type, with a positive score
CandidatesOf(all, sc) ==
    { i \in 1..Len(all) : (TypeGiven => all[i].type = call.options.type) /\ sc[i] > 0 }

\* the rank of a candidate: after the candidates of higher score and the
\* earlier candidates of the same score
RankIn(cand, sc, i) ==
    1 + Cardinality({ j \in cand : sc[j] > sc[i] \/ (sc[j] = sc[i] /\ j < i) })

\* C4: search returns the first `limit` of the type-filtered entries of
\* positive score, by descending score, entries of equal score in file
\* order; an entry of score 0 is not returned.
C4_RankedStable ==
    Searched =>
        LET all == FileEntries
            sc == ScoresOf(all)
            cand == CandidatesOf(all, sc)
            n == Min(IF LimitGiven THEN call.options.limit ELSE 10, Cardinality(cand))
        IN /\ Len(out) = n
           /\ \A m \in 1..n : \E i \in cand : RankIn(cand, sc, i) = m /\ out[m] = all[i]

\* two entries of equal score returned in file order, after an entry of a
\* higher score that stands later in the file
C4_Witness ==
    /\ Searched
    /\ Len(out) = 3
    /\ LET all == FileEntries
       IN /\ Len(all) = 3
          /\ out = <<all[3], all[1], all[2]>>
          /\ all[1] /= all[2]
          /\ Score(all[1], TheQuery) = Score(all[2], TheQuery)

Points(n, cond) == IF cond THEN n ELSE 0

Containing(e, q) == { i \in 1..Len(e.triggers) : includes(toLowerCase(e.triggers[i]), q) }
Equalling(e, q) == { i \in 1..Len(e.triggers) : toLowerCase(e.triggers[i]) = q }

\* the points of everything but the triggers
OtherPoints(e, q) ==
    Points(100, toLowerCase(e.name) = q)
    + Points(50, includes(toLowerCase(e.name), q))
    + Points(30, includes(toLowerCase(e.description), q))
    + Points(10, "category" \in DOMAIN e /\ includes(toLowerCase(e.category), q))
    + Points(5, e.type = "agent" /\ ("isSubAgent" \in DOMAIN e => ~e.isSubAgent))

\* the trigger points as the table gives them: once for the entry
TablePoints(e, q) ==
    IF Equalling(e, q) /= {} THEN 60 ELSE IF Containing(e, q) /= {} THEN 20 ELSE 0

\* C5 as stated: the score is the sum of the name, description, category and
\* root-agent points and of the trigger points of the table.
C5_TableScore ==
    Searched =>
        \A i \in 1..Len(scored) :
            scored[i].score = OtherPoints(scored[i].entry, TheQuery)
                              + TablePoints(scored[i].entry, TheQuery)

\* C5 amended: the score is the sum of the name, description, category and
\* root-agent points and of 20 points for every trigger that contains the
\* query and 40 more for every trigger that equals it.
C5_ScoreSum ==
    Searched =>
        \A i \in 1..Len(scored) :
            scored[i].score = OtherPoints(scored[i].entry, TheQuery)
                              + 20 * Cardinality(Containing(scored[i].entry, TheQuery))
                              + 40 * Cardinality(Equalling(scored[i].entry, TheQuery))

\* a skill with two matching triggers, a root agent and a sub-agent scored
\* by the same search
C5_Witness ==
    /\ Searched
    /\ \E i, j, k \in 1..Len(scored) :
          /\ scored[i].entry.type = "agent" /\ scored[i].entry.isSubAgent
          /\ scored[j].entry.type = "agent" /\ ~scored[j].entry.isSubAgent
          /\ scored[k].entry.type = "skill" /\ Len(scored[k].entry.triggers) = 2
          /\ scored[i].score = 150
          /\ scored[j].score = 155
          /\ scored[k].score = 150

\* what the triggers of an entry add to its score
TriggerShare(i) ==
    scored[i].score - Score([scored[i].entry EXCEPT !.triggers = <<>>], TheQuery)

\* C6 as stated: the triggers count once for the entry: 20 when a trigger
\* contains the query, 60 when such a trigger equals it, however many match.
C6_OncePerEntry ==
    Searched =>
        \A i \in 1..Len(scored) :
            TriggerShare(i) = IF Equalling(scored[i].entry, TheQuery) /= {} THEN 60
                              ELSE IF Containing(scored[i].entry, TheQuery) /= {} THEN 20
                              ELSE 0

\* C6 amended: the triggers count one by one: every trigger that contains
\* the query adds 20, and 40 more when it equals the query.
C6_PerTrigger ==
    Searched =>
        \A i \in 1..Len(scored) :
            TriggerShare(i) = 20 * Cardinality(Containing(scored[i].entry, TheQuery))
                              + 40 * Cardinality(Equalling(scored[i].entry, TheQuery))

\* an entry with two triggers that both equal the query
C6_Witness ==
    /\ Searched
    /\ \E i \in 1..Len(scored) :
          /\ Cardinality(Equalling(scored[i].entry, TheQuery)) = 2
          /\ TriggerShare(i) = 120

\* C7: search returns min(n, k) entries, n the limit (10 when none is given)
\* and k the number of entries of the asked type with a positive score, all
\* of the asked type; only entries of that type are scored.
C7_LimitAndType ==
    Searched =>
        LET all == FileEntries
            typed == { i \in 1..Len(all) : TypeGiven => all[i].type = call.options.type }
            k == Cardinality({ i \in typed :
                                 \E j \in 1..Len(scored) :
                                     scored[j].entry = all[i] /\ scored[j].score > 0 })
            n == IF LimitGiven THEN call.options.limit ELSE 10
        IN /\ Len(out) = Min(n, k)
           /\ Len(scored) = Cardinality(typed)
           /\ TypeGiven =>
                 /\ \A m \in 1..Len(out) : out[m].type = call.options.type
                 /\ \A j \in 1..Len(scored) : scored[j].entry.type = call.options.type

\* skills and eleven agents all match; the agents are asked for, no limit
C7_Witness ==
    /\ Searched
    /\ call.options = [type |-> "agent"]
    /\ Len(out) = 10
    /\ LET all == FileEntries
           sc == ScoresOf(all)
       IN /\ Cardinality({ i \in 1..Len(all) : all[i].type = "agent" /\ sc[i] > 0 }) = 11
          /\ \E i \in 1..Len(all) : all[i].type = "skill" /\ sc[i] > 0

\* the name contains the query as a proper substring, nothing else matches
SubstringOnly(e, q) ==
    /\ includes(toLowerCase(e.name), q)
    /\ toLowerCase(e.name) /= q
    /\ ~includes(toLowerCase(e.description), q)
    /\ Containing(e, q) = {}
    /\ ~("category" \in DOMAIN e /\ includes(toLowerCase(e.category), q))

\* C8: in a search result an entry whose name equals the query comes before
\* every entry that matches only by a proper substring of its name.
C8_ExactBeforeSubstring ==
    Searched =>
        \A i, j \in 1..Len(out) :
            (toLowerCase(out[i].name) = TheQuery /\ SubstringOnly(out[j], TheQuery)) => i < j

\* the substring match stands first in the file and second in the result
C8_Witness ==
    /\ Searched
    /\ Len(out) >= 2
    /\ LET all == FileEntries
       IN /\ SubstringOnly(all[1], TheQuery)
          /\ toLowerCase(all[Len(all)].name) = TheQuery
          /\ out[1] = all[Len(all)]
          /\ out[2] = all[1]

----------------------------------------------------------------------------
(* Properties of build.                                                    *)

AgentsGiven(args) == IF "agents" \in DOMAIN args THEN args.agents ELSE <<>>

\* the entry a skill is to give
IsSkillProjection(e, skill) ==
    /\ DOMAIN e = {"type", "name", "file", "description", "category", "triggers"}
    /\ e.type = "skill"
    /\ e.name = skill.name
    /\ e.file = <<".github/skills/">> \o skill.name \o <<"/SKILL.md">>
    /\ e.description = skill.description
    /\ e.category = skill.category
    /\ e.triggers = skill.triggers

\* the entry an agent is to give
IsAgentProjection(e, agent) ==
    /\ DOMAIN e = {"type", "name", "file", "description", "triggers", "isSubAgent"}
                  \cup (DOMAIN agent \cap {"parentAgent", "subAgents"})
    /\ e.type = "agent"
    /\ e.name = agent.name
    /\ e.file = <<".github/agents/">> \o agent.name \o <<"/agent.yaml">>
    /\ e.description = agent.description
    /\ e.triggers = agent.triggers
    /\ e.isSubAgent = agent.isSubAgent
    /\ \A key \in DOMAIN agent \cap {"parentAgent", "subAgents"} : e[key] = agent[key]

\* one entry per skill, then one entry per agent, each the projection
IsProjection(entries, args) ==
    LET ns == Len(args.skills)
        ags == AgentsGiven(args)
    IN /\ Len(entries) = ns + Len(ags)
       /\ \A i \in 1..ns : IsSkillProjection(entries[i], args.skills[i])
       /\ \A i \in 1..Len(ags) : IsAgentProjection(entries[ns + i], ags[i])

\* C9: list() right after a build that writes returns one entry per skill
\* followed by one entry per agent, each the projection of its record.
C9_BuildThenList ==
    [][(call.op = "build" /\ ~dryRun /\ call'.op = "list")
          => IsProjection(out', call.args)]_vars

\* a list that returns a skill entry followed by a sub-agent entry
C9_Witness ==
    /\ call.op = "list"
    /\ Len(out) >= 2
    /\ out[1].type = "skill"
    /\ out[Len(out)].type = "agent"
    /\ "parentAgent" \in DOMAIN out[Len(out)]

----------------------------------------------------------------------------
(* A Registry constructed for a dry run, on a path where an earlier run    *)
(* has left a registry file, or none.                                      *)

\* the file an earlier build of one skill and one agent has written, or none
EarlierFiles ==
    {NoFile,
     WriteFile(NoFile, Content(BuildEntries(
        [skills |-> <<CHOOSE s \in SkillPool : s.name = <<"b">> >>,
         agents |-> <<RootAgent>>])))}

InitDryRun ==
    /\ file \in EarlierFiles
    /\ dryRun = TRUE
    /\ call = Idle
    /\ out = <<>>
    /\ scored = <<>>
    /\ agents = <<>>
    /\ result = <<>>
    /\ threw = FALSE
    /\ pc = "none"
    /\ cmd = NoCommand

SpecDryRun == InitDryRun /\ [][NextRegistry]_vars

\* what search returns for a query, no option given
SearchOf(f, query) == Ranked(Scored(f, query, NoFields), NoFields)

\* C11: a build of a Registry constructed with dryRun true leaves the
\* registry file as it was, in existence and in content, so list, get and
\* search return after the build what they returned before it.
C11_DryRunBuild ==
    [][(dryRun /\ call'.op = "build") =>
          /\ file' = file
          /\ ListResult(file') = ListResult(file)
          /\ \A name \in GetNames : GetResult(file', name) = GetResult(file, name)
          /\ \A query \in Queries : SearchOf(file', query) = SearchOf(file, query)]_vars

\* a dry-run build has been made over a file that holds other entries than
\* the ones the build was given
C11_Witness ==
    /\ dryRun
    /\ call.op = "build"
    /\ file.exists
    /\ ListResult(file) /= <<>>
    /\ ListResult(file) /= BuildEntries(call.args)

----------------------------------------------------------------------------
(* Records of one name handed to build.                                    *)

\* the records build was given, the skills before the agents
RecordsOfBuild(args) == args.skills \o AgentsGiven(args)

\* how many elements of s have the name
CountName(s, name) == Cardinality({i \in 1..Len(s) : s[i].name = name})

----------------------------------------------------------------------------
(* list and get applied to a registry file build has written.              *)

\* two records of one name that differ in their description
DuplicateArgs ==
    [skills |-> <<>>,
     agents |-> <<RootAgent, [RootAgent EXCEPT !.description = <<"z">>]>>]

\* the files build writes, one of them holding two entries of one name
WrittenFiles ==
    {WriteFile(NoFile, Content(BuildEntries(args))) : args \in BuildArgs \cup {DuplicateArgs}}

InitRead ==
    /\ file \in {NoFile} \cup WrittenFiles
    /\ dryRun = FALSE
    /\ call = Idle
    /\ out = <<>>
    /\ scored = <<>>
    /\ agents = <<>>
    /\ result = <<>>
    /\ threw = FALSE
    /\ pc = "none"
    /\ cmd = NoCommand

NextRead ==
    \/ List
    \/ \E name \in GetNames : Get(name)

SpecRead == InitRead /\ [][NextRead]_vars

\* the non-empty lines of the file, in file order
FileLines == SelectSeq(SplitLines(file.content, <<>>), NonEmpty)

\* the line holds the member "name": name
HasName(line, name) == \E k \in 1..Len(line) : line[k] = <<"name", name>>

\* C13: list returns one entry for every line of the file, in file order,
\* none left out; get(name) returns the entry of the first line whose name
\* is the name asked for, letter case included, and null when no line has
\* that name.
C13_ListAndGet ==
    /\ call.op = "list" =>
          /\ Len(out) = Len(FileLines)
          /\ \A i \in 1..Len(out) : Stringify(out[i]) = FileLines[i]
    /\ call.op = "get" =>
          LET lines == FileLines
              same == {i \in 1..Len(lines) : HasName(lines[i], call.name)}
          IN IF same = {} THEN out = <<>>
             ELSE /\ Len(out) = 1
                  /\ Stringify(out[1]) = lines[CHOOSE i \in same : \A j \in same : i <= j]
    /\ ~threw

\* get has returned the first of two different entries of the name asked for
C13_Witness ==
    /\ call.op = "get"
    /\ out /= <<>>
    /\ \E i, j \in 1..Len(FileLines) :
          /\ i < j
          /\ HasName(FileLines[i], call.name)
          /\ HasName(FileLines[j], call.name)
          /\ FileLines[i] /= FileLines[j]
          /\ Stringify(out[1]) = FileLines[i]

----------------------------------------------------------------------------
(* The read operations applied to a registry file that build has not       *)
(* written as it stands: lines that are null, a number, no JSON, or an     *)
(* entry with a member missing; a file that is absent or cannot be read.   *)

\* the line without the member of that key
WithoutKey(line, key) == LET Keep(m) == m[1] /= key IN SelectSeq(line, Keep)

SkillLine == Stringify(SkillEntry(CHOOSE s \in SkillPool : s.name = <<"b">>))
AgentLine == Stringify(AgentEntry(RootAgent))

LinePool ==
    {SkillLine, AgentLine, NullText, NumberText, BrokenText,
     WithoutKey(AgentLine, "name"), WithoutKey(SkillLine, "description"),
     WithoutKey(SkillLine, "triggers")}

\* lines.join("\n") + "\n"
RECURSIVE TextOf(_)
TextOf(lines) == IF lines = <<>> THEN <<>> ELSE Head(lines) \o <<NL>> \o TextOf(Tail(lines))

FoundFiles ==
    {NoFile, [exists |-> TRUE, content |-> TextOf(<<SkillLine>>), unreadable |-> TRUE]}
    \cup {[exists |-> TRUE, content |-> TextOf(lines)] : lines \in SeqsUpTo(LinePool, MaxLines)}

InitFound ==
    /\ file \in FoundFiles
    /\ dryRun = FALSE
    /\ call = Idle
    /\ out = <<>>
    /\ scored = <<>>
    /\ agents = <<>>
    /\ result = <<>>
    /\ threw = FALSE
    /\ pc = "none"
    /\ cmd = NoCommand

NextFound ==
    \/ List
    \/ \E name \in GetNames : Get(name)
    \/ \E query \in Queries, options \in SearchOptions : Search(query, options)

SpecFound == InitFound /\ [][NextFound]_vars

\* a read operation has been called
ReadCalled == call.op \in {"search", "list", "get"}

\* the line holds something that is no JSON
Malformed(line) == \E k \in 1..Len(line) : line[k] = <<"{">>

\* C14: when the registry file is absent, cannot be read, or holds at least
\* one line that is not valid JSON, search and list return the empty list
\* and get returns null, none of them raising; the lines that do parse are
\* not returned.
C14_DamagedReadsEmpty ==
    (/\ ReadCalled
     /\ \/ ~file.exists
        \/ "unreadable" \in DOMAIN file
        \/ \E i \in 1..Len(FileLines) : Malformed(FileLines[i]))
    => (out = <<>> /\ ~threw)

\* list has returned nothing for a readable file that holds a line that is
\* an entry and a line that is no JSON
C14_Witness ==
    /\ call.op = "list"
    /\ file.exists
    /\ "unreadable" \notin DOMAIN file
    /\ \E i, j \in 1..Len(FileLines) :
          Malformed(FileLines[i]) /\ FileLines[j] = SkillLine
    /\ out = <<>>

\* C15: for every file whose lines are all valid JSON, lines that are not
\* objects and entries with a member missing included, search, list and get
\* return without raising.
C15_ReadsNeverRaise ==
    (ReadCalled /\ \A i \in 1..Len(FileLines) : ~Malformed(FileLines[i])) => ~threw

----------------------------------------------------------------------------
(* The license gate.  A repository is what the gate can see of it: the     *)
(* spdx_id the GitHub API reports, and the license file, package.json and  *)
(* pyproject.toml of the working copy.  Texts are strings.                 *)

\* String.prototype.toLowerCase on a text
LowerLetter(c) ==
    CASE c = "A" -> "a" [] c = "B" -> "b" [] c = "C" -> "c" [] c = "D" -> "d"
      [] c = "E" -> "e" [] c = "F" -> "f" [] c = "G" -> "g" [] c = "H" -> "h"
      [] c = "I" -> "i" [] c = "J" -> "j" [] c = "K" -> "k" [] c = "L" -> "l"
      [] c = "M" -> "m" [] c = "N" -> "n" [] c = "O" -> "o" [] c = "P" -> "p"
      [] c = "Q" -> "q" [] c = "R" -> "r" [] c = "S" -> "s" [] c = "T" -> "t"
      [] c = "U" -> "u" [] c = "V" -> "v" [] c = "W" -> "w" [] c = "X" -> "x"
      [] c = "Y" -> "y" [] c = "Z" -> "z" [] OTHER -> c

RECURSIVE LowerText(_)
LowerText(s) ==
    IF Len(s) = 0 THEN ""
    ELSE LowerLetter(SubSeq(s, 1, 1)) \o LowerText(SubSeq(s, 2, Len(s)))

\* PERMISSIVE_LICENSES of assimilate.ts, for the GitHub-URL path
PERMISSIVE_LICENSES ==
    <<"MIT", "Apache-2.0", "GPL-2.0", "GPL-3.0", "LGPL-2.1", "LGPL-3.0",
      "BSD-2-Clause", "BSD-3-Clause", "ISC", "MPL-2.0", "Unlicense", "CC0-1.0">>

\* PERMISSIVE_LICENSES of license.js, in the order of its keys
LicensePatterns ==
    << [spdxId |-> "MIT", patterns |-> <<"mit license", "the mit license", "mit-license">>],
       [spdxId |-> "Apache-2.0",
        patterns |-> <<"apache license", "apache-2.0", "apache 2.0",
                       "licensed under the apache license">>],
       [spdxId |-> "BSD-2-Clause",
        patterns |-> <<"bsd 2-clause", "bsd-2-clause", "simplified bsd", "freebsd license">>],
       [spdxId |-> "BSD-3-Clause",
        patterns |-> <<"bsd 3-clause", "bsd-3-clause", "new bsd", "modified bsd">>],
       [spdxId |-> "0BSD", patterns |-> <<"zero-clause bsd", "0bsd">>],
       [spdxId |-> "GPL-2.0",
        patterns |-> <<"gnu general public license v2", "gpl-2.0", "gplv2", "gnu gpl v2">>],
       [spdxId |-> "GPL-3.0",
        patterns |-> <<"gnu general public license v3", "gpl-3.0", "gplv3", "gnu gpl v3">>],
       [spdxId |-> "LGPL-2.1",
        patterns |-> <<"gnu lesser general public license v2.1", "lgpl-2.1", "lgplv2.1">>],
       [spdxId |-> "LGPL-3.0",
        patterns |-> <<"gnu lesser general public license v3", "lgpl-3.0", "lgplv3">>],
       [spdxId |-> "AGPL-3.0",
        patterns |-> <<"gnu affero general public license", "agpl-3.0", "agplv3">>],
       [spdxId |-> "ISC", patterns |-> <<"isc license">>],
       [spdxId |-> "MPL-2.0", patterns |-> <<"mozilla public license", "mpl-2.0", "mpl 2.0">>],
       [spdxId |-> "Unlicense",
        patterns |-> <<"unlicense", "this is free and unencumbered software">>],
       [spdxId |-> "CC0-1.0", patterns |-> <<"cc0", "creative commons zero", "cc0-1.0">>],
       [spdxId |-> "WTFPL", patterns |-> <<"wtfpl", "do what the fuck you want">>],
       [spdxId |-> "Zlib", patterns |-> <<"zlib license">>],
       [spdxId |-> "BlueOak-1.0.0", patterns |-> <<"blue oak model license">>] >>

LICENSE_FILES ==
    <<"LICENSE", "LICENSE.md", "LICENSE.txt", "LICENCE", "LICENCE.md", "LICENCE.txt",
      "license", "license.md", "license.txt", "COPYING", "COPYING.md", "COPYING.txt">>

proprietaryPatterns ==
    <<"all rights reserved", "proprietary", "confidential", "not for redistribution",
      "may not be copied">>

\* some pattern of the list occurs in the lower-cased content
SomeIncluded(lowerContent, patterns) ==
    \E p \in 1..Len(patterns) : includes(lowerContent, patterns[p])

NotDetected == [detected |-> FALSE, permissive |-> FALSE]

\* identifyLicense(content): the first license of the table one of whose
\* patterns occurs in the content
identifyLicense(content) ==
    LET lowerContent == LowerText(content)
        hits == {k \in 1..Len(LicensePatterns) :
                    SomeIncluded(lowerContent, LicensePatterns[k].patterns)}
    IN IF hits /= {}
       THEN LET first == CHOOSE k \in hits : \A other \in hits : k <= other
            IN [detected |-> TRUE, name |-> LicensePatterns[first].spdxId,
                spdxId |-> LicensePatterns[first].spdxId, permissive |-> TRUE]
       ELSE IF SomeIncluded(lowerContent, proprietaryPatterns)
               /\ ~includes(lowerContent, "mit")
       THEN [detected |-> TRUE, name |-> "Proprietary", permissive |-> FALSE]
       ELSE NotDetected

\* Object.keys(PERMISSIVE_LICENSES).some((key) => key.toLowerCase() === name.toLowerCase())
IsTableKey(name) ==
    \E k \in 1..Len(LicensePatterns) :
        LowerText(LicensePatterns[k].spdxId) = LowerText(name)

\* the license named by a manifest: a parsed package.json with a license
\* member, a pyproject.toml with a license line
Names(files, manifest) ==
    manifest \in DOMAIN files /\ "license" \in DOMAIN files[manifest]

FromManifest(files, manifest) ==
    [detected |-> TRUE, name |-> files[manifest].license,
     spdxId |-> files[manifest].license,
     permissive |-> IsTableKey(files[manifest].license), file |-> manifest]

\* detectLicense(repoPath): the first license file there is decides, then
\* package.json, then pyproject.toml
detectLicense(files) ==
    LET found == {n \in 1..Len(LICENSE_FILES) : LICENSE_FILES[n] \in DOMAIN files}
    IN IF found /= {}
       THEN LET filename == LICENSE_FILES[CHOOSE n \in found : \A m \in found : n <= m]
                identified == identifyLicense(files[filename])
            IN IF identified.detected
               THEN identified @@ [file |-> filename]
               ELSE [detected |-> TRUE, name |-> "Unknown", permissive |-> FALSE,
                     file |-> filename]
       ELSE IF Names(files, "package.json") THEN FromManifest(files, "package.json")
       ELSE IF Names(files, "pyproject.toml") THEN FromManifest(files, "pyproject.toml")
       ELSE NotDetected

\* result.repo.license && PERMISSIVE_LICENSES.includes(result.repo.license)
RemotePermissive(repo) ==
    /\ "spdx_id" \in DOMAIN repo
    /\ repo.spdx_id /= ""
    /\ \E k \in 1..Len(PERMISSIVE_LICENSES) : PERMISSIVE_LICENSES[k] = repo.spdx_id

\* isPermissive of the GitHub-URL path, license.permissive of the local path
IsPermissive(remote, repo) ==
    IF remote THEN RemotePermissive(repo) ELSE detectLicense(repo.files).permissive

----------------------------------------------------------------------------
(* Generator.generate.  The output path is a set of entries, a path with   *)
(* its content; the content of a generated file stands for the text the    *)
(* generator builds from the definition.                                   *)

Directory == [directory |-> TRUE]

\* fs.mkdir(path, { recursive: true })
Mkdir(disk, path) ==
    IF \E f \in disk : f.path = path THEN disk
    ELSE disk \cup {[path |-> path, content |-> Directory]}

\* fs.writeFile(path, content)
WriteAsset(disk, path, content) ==
    {f \in disk : f.path /= path} \cup {[path |-> path, content |-> content]}

\* the relative paths generateSkill, generateAgent and generateHook return
SkillPath(skill) == <<".github/skills/">> \o skill.name \o <<"/SKILL.md">>
AgentYamlPath(agent) == <<".github/agents/">> \o agent.name \o <<"/agent.yaml">>
AgentMdPath(agent) == <<".github/agents/">> \o agent.name \o <<".agent.md">>
HookPath(hook) == <<".github/hooks/">> \o hook.name \o <<".yaml">>

\* generateSkill, generateAgent, generateHook on the output path
generateSkill(disk, skill, dry) ==
    IF dry THEN disk
    ELSE WriteAsset(Mkdir(disk, <<".github/skills/">> \o skill.name),
                    SkillPath(skill), [markdown |-> skill])

generateAgent(disk, agent, dry) ==
    IF dry THEN disk
    ELSE WriteAsset(WriteAsset(Mkdir(disk, <<".github/agents/">> \o agent.name),
                               AgentYamlPath(agent), [yaml |-> agent]),
                    AgentMdPath(agent), [md |-> agent])

generateHook(disk, hook, dry) ==
    IF dry THEN disk ELSE WriteAsset(disk, HookPath(hook), [yaml |-> hook])

RECURSIVE GenerateSkills(_, _, _)
GenerateSkills(disk, skills, dry) ==
    IF skills = <<>> THEN disk
    ELSE GenerateSkills(generateSkill(disk, Head(skills), dry), Tail(skills), dry)

RECURSIVE GenerateAgents(_, _, _)
GenerateAgents(disk, ags, dry) ==
    IF ags = <<>> THEN disk
    ELSE GenerateAgents(generateAgent(disk, Head(ags), dry), Tail(ags), dry)

RECURSIVE GenerateHooks(_, _, _)
GenerateHooks(disk, hooks, dry) ==
    IF hooks = <<>> THEN disk
    ELSE GenerateHooks(generateHook(disk, Head(hooks), dry), Tail(hooks), dry)

\* the three directories generate makes first
BaseDirectories(disk, dry) ==
    IF dry THEN disk
    ELSE Mkdir(Mkdir(Mkdir(disk, <<".github/skills">>), <<".github/agents">>),
               <<".github/hooks">>)

\* generate that writes whatever dryRun is
GenerateOnDiskAlways(disk, analysis, hooks, dry) ==
    GenerateHooks(GenerateAgents(GenerateSkills(BaseDirectories(disk, FALSE),
                                                analysis.skills, FALSE),
                                 analysis.agents, FALSE),
                  hooks, FALSE)

\* the output path after generate
GenerateOnDisk(disk, analysis, hooks, dry) ==
    GenerateHooks(GenerateAgents(GenerateSkills(BaseDirectories(disk, dry),
                                                analysis.skills, dry),
                                 analysis.agents, dry),
                  hooks, dry)

RECURSIVE AgentPaths(_)
AgentPaths(ags) ==
    IF ags = <<>> THEN <<>>
    ELSE <<AgentYamlPath(Head(ags)), AgentMdPath(Head(ags))>> \o AgentPaths(Tail(ags))

\* GeneratorResult.files: the skills, then the agents, then the hooks
GeneratedFiles(analysis, hooks) ==
    [i \in 1..Len(analysis.skills) |-> SkillPath(analysis.skills[i])]
    \o AgentPaths(analysis.agents)
    \o [i \in 1..Len(hooks) |-> HookPath(hooks[i])]

----------------------------------------------------------------------------
(* assimilateCommand, for a remote target and for a local one: analysis,   *)
(* license check, generation, registry build, hooks.  pc is the statement  *)
(* the command is at; "returned", "blocked" and "rejected" are its ends.   *)

\* what the analysis hands to the registry
AnalysisArgs == {args \in BuildArgs : "agents" \in DOMAIN args}

\* a hook of the analysis result
PostGenerateHook ==
    [name |-> <<"h">>, event |-> "post-generate", description |-> <<>>,
     commands |-> << <<"c">> >>]

\* a repository: the spdx_id GitHub reports, when it reports a license, and
\* the files of the working copy the gate reads
Repo(spdx, files) == [spdx_id |-> spdx, files |-> files]

NoLicenseRepo == [files |-> NoFields]

MITRepo == Repo("MIT", "LICENSE" :> "MIT License")

\* the command before its first statement
Command(remote, repo, analysis, hooks, disk) ==
    [remote |-> remote, repo |-> repo, analysis |-> analysis, hooks |-> hooks,
     exitCode |-> 0, disk |-> disk, generated |-> <<>>, hookRuns |-> <<>>]

InitAssimilate ==
    /\ cmd \in {Command(remote, repo, analysis, <<PostGenerateHook>>, {}) :
                   remote \in BOOLEAN, repo \in {MITRepo, NoLicenseRepo},
                   analysis \in AnalysisArgs}
    /\ dryRun \in BOOLEAN
    /\ file \in EarlierFiles
    /\ pc = "analyze"
    /\ call = Idle
    /\ out = <<>>
    /\ scored = <<>>
    /\ agents = <<>>
    /\ result = <<>>
    /\ threw = FALSE

\* where a local run goes when it leaves the try block, a remote run having
\* no finally clause
Leave(end) == IF cmd.remote THEN end ELSE "cleanup"

Analyze ==
    /\ pc = "analyze"
    /\ pc' = "license"
    /\ UNCHANGED <<agents, result, file, dryRun, call, out, scored, threw, cmd>>

\* the gate that stops no run
BlockedNever(remote, repo, dry) == FALSE

\* if (!isPermissive && !options.dryRun), if (!license.permissive && !options.dryRun)
Blocked(remote, repo, dry) == ~IsPermissive(remote, repo) /\ ~dry

\* the license gate: a run that is not a dry run stops at a license that is
\* not permissive, with exit code 1
LicenseCheck ==
    /\ pc = "license"
    /\ IF Blocked(cmd.remote, cmd.repo, dryRun)
       THEN /\ cmd' = [cmd EXCEPT !.exitCode = 1]
            /\ pc' = Leave("blocked")
       ELSE /\ pc' = "generate"
            /\ UNCHANGED cmd
    /\ UNCHANGED <<agents, result, file, dryRun, call, out, scored, threw>>

\* new Generator(outputPath, options.dryRun).generate(...)
Generate ==
    /\ pc = "generate"
    /\ pc' = "registry"
    /\ cmd' = [cmd EXCEPT !.disk = GenerateOnDisk(cmd.disk, cmd.analysis, cmd.hooks, dryRun),
                          !.generated = GeneratedFiles(cmd.analysis, cmd.hooks)]
    /\ UNCHANGED <<agents, result, file, dryRun, call, out, scored, threw>>

\* new Registry(outputPath, options.dryRun); await registry.build(...)
RegistryBuild ==
    /\ pc = "registry"
    /\ call = Idle
    /\ \/ Build(cmd.analysis)
       \/ BuildWriteFails(cmd.analysis)

\* the statement after the await: reached when build returned; a rejection
\* of build leaves the command, through the finally clause of a local run
AfterBuild ==
    /\ pc = "registry"
    /\ call.op = "build"
    /\ pc' = IF threw THEN Leave("rejected") ELSE "hooks"
    /\ UNCHANGED <<agents, result, file, dryRun, call, out, scored, threw, cmd>>

\* HookRunner.execute called whatever dryRun is
HookRunsAlways(runs, dry) == Append(runs, "post-generate")

\* if (!options.dryRun) { await hookRunner.execute("post-generate"); }
HookRuns(runs, dry) == IF dry THEN runs ELSE Append(runs, "post-generate")

\* the post-generate hooks, run unless the run is a dry run
Hooks ==
    /\ pc = "hooks"
    /\ pc' = Leave("returned")
    /\ cmd' = [cmd EXCEPT !.hookRuns = HookRuns(cmd.hookRuns, dryRun)]
    /\ UNCHANGED <<agents, result, file, dryRun, call, out, scored, threw>>

\* finally { if (resolved.isTemporary) await resolved.cleanup(); }
Cleanup ==
    /\ pc = "cleanup"
    /\ pc' = IF threw THEN "rejected" ELSE IF cmd.exitCode = 1 THEN "blocked" ELSE "returned"
    /\ UNCHANGED <<agents, result, file, dryRun, call, out, scored, threw, cmd>>

NextAssimilate ==
    \/ Analyze
    \/ LicenseCheck
    \/ Generate
    \/ RegistryBuild
    \/ AfterBuild
    \/ Hooks
    \/ Cleanup

SpecAssimilate == InitAssimilate /\ [][NextAssimilate]_vars

\* fs.writeFile has failed in the build of this run
WriteFailed == call.op = "build" /\ "failed" \in DOMAIN call

\* C16: when writing the registry file fails in a build that is not a dry
\* run, build raises to its caller, and the failure leaves assimilateCommand:
\* no later statement of the command runs and the command ends rejected.
C16_WriteFailurePropagates ==
    /\ [](WriteFailed => (threw /\ pc \in {"registry", "cleanup", "rejected"}))
    /\ [][(WriteFailed /\ pc /= "rejected") =>
             (pc' \in {"cleanup", "rejected"} /\ threw')]_vars

\* the command has ended rejected after a failed write of the registry file
C16_Witness == WriteFailed /\ ~dryRun /\ pc = "rejected"

----------------------------------------------------------------------------
(* The normaliser applied to values of the wrong shape: a name, a          *)
(* description, skills or triggers of any JSON type, elements that are no  *)
(* objects, and subAgents or tools that are no arrays or hold anything.    *)

\* Undef stands for a key the object does not have
NameValues ==
    {Undef, Str(<<"a">>), Str(<<>>), Num(5), Num(0), Null, Bool(TRUE), Bool(FALSE),
     Obj(NoFields), Arr(<<>>), Arr(<<Num(1), Num(2)>>), Obj("toString" :> Num(1))}

DescriptionValues == {Undef, Str(<<"d">>), Num(5), Obj(NoFields)}

ListValues == {Undef, Arr(<<Str(<<"s">>)>>), Arr(<<Num(1), Null>>), Str(<<"x">>)}

\* the object holding the members of f that are not Undef
FieldsOf(f) == [key \in {k \in DOMAIN f : f[k].k /= "undefined"} |-> f[key]]

CoerceObjects ==
    {Obj(FieldsOf(f)) :
        f \in [name : NameValues, description : DescriptionValues,
               skills : ListValues, triggers : ListValues]}

OddElements == {Null, Num(3), Str(<<"s">>), Bool(TRUE), Arr(<<>>)}

OddSubAgents ==
    {Num(5), Str(<<"x">>), Obj(NoFields),
     Arr(<<Num(5), Null, Str(<<"s">>), Obj(NoFields),
           Obj("name" :> Str(<<"c">>)), Obj("name" :> Num(7))>>)}

OddTools ==
    {Num(5), Str(<<"t">>), Obj(NoFields),
     Arr(<<Str(<<"n", " ", "t">>), Obj("name" :> Str(<<"t">>)), Num(3), Null>>),
     Arr(<<Obj("name" :> Obj("toString" :> Null))>>)}

CoerceInputs ==
    {<<o>> : o \in CoerceObjects}
    \cup {<<e, Obj("name" :> Str(<<"a">>))>> : e \in OddElements}
    \cup {<<Obj(("name" :> Str(<<"p">>)) @@ ("subAgents" :> sa))>> : sa \in OddSubAgents}
    \cup {<<Obj(("name" :> Str(<<"p">>)) @@ ("tools" :> t))>> : t \in OddTools}

InitCoerce ==
    /\ agents \in CoerceInputs
    /\ result = <<>>
    /\ call = Idle
    /\ file = NoFile
    /\ dryRun = FALSE
    /\ out = <<>>
    /\ scored = <<>>
    /\ threw = FALSE
    /\ pc = "none"
    /\ cmd = NoCommand

SpecCoerce == InitCoerce /\ [][NextFlatten]_vars

\* C17: for every array of JSON values, of any shape, the normaliser
\* returns a list and does not raise.
C17_NeverRaises == Flattened => ~threw

----------------------------------------------------------------------------
(* How many records the normaliser emits.                                  *)

\* the elements of the input array, whatever they are, and the objects found
\* in a subAgents array at any depth
ElementsAndNested(arr) ==
    { p \in Positions :
        LET x == ValueAt(arr, p)
        IN x.k /= "undefined" /\ (Len(p) = 1 \/ x.k = "object") }

----------------------------------------------------------------------------
(* The fields of the record emitted for the first element of the input,    *)
(* when that element is an object and the normaliser returns.              *)

FirstEmitted == Flattened /\ ~threw /\ agents /= <<>> /\ IsObject(agents[1])

\* the raw member of the first element, Undef when the key is absent
RawOf(key) == IF key \in DOMAIN agents[1].v THEN agents[1].v[key] ELSE Undef

\* the values a || default replaces by the default
Falsy(x) ==
    \/ x.k \in {"undefined", "null"}
    \/ x.k = "string" /\ x.v = <<>>
    \/ x.k = "number" /\ x.v = 0
    \/ x.k = "boolean" /\ x.v = FALSE

\* C19 as claimed: the emitted name is the node's name when that is a
\* string, and "unknown" when the name is absent or of any other type.
C19_StringOrUnknown ==
    FirstEmitted =>
        result[1].name = (IF RawOf("name").k = "string" THEN RawOf("name").v
                          ELSE <<"unknown">>)

\* C19: the emitted name is "unknown" when the node's name is absent, null,
\* "", 0 or false; otherwise it is String(name): a non-empty string as it
\* is, a number in decimal, true as "true", an object as "[object Object]",
\* an array as its elements joined by commas.
C19_NameCoerced ==
    FirstEmitted =>
        LET name == RawOf("name")
        IN result[1].name =
             (CASE Falsy(name) -> <<"unknown">>
                [] name.k = "string" /\ ~Falsy(name) -> name.v
                [] name.k = "number" /\ ~Falsy(name) -> <<ToString(name.v)>>
                [] name.k = "boolean" /\ ~Falsy(name) -> <<"true">>
                [] name.k = "object" -> <<"[object Object]">>
                [] name.k = "array" -> JoinComma(name.v))

\* a name that is a number has been emitted as its decimal text
C19_Witness ==
    /\ FirstEmitted
    /\ RawOf("name") = Num(5)
    /\ result[1].name = <<"5">>

\* the strings map(String) gives for the elements of a raw array
Strings(arr) == [i \in 1..Len(arr) |-> JSString(arr[i])]

\* a raw value that is an array of strings
StringArray(x) == x.k = "array" /\ \A i \in 1..Len(x.v) : x.v[i].k = "string"

\* C20 as claimed: a description that is absent or no string becomes "";
\* triggers or skills that are absent or no array of strings become the
\* empty sequence; a field of the right type is carried over unchanged.
C20_WrongTypeEmptied ==
    FirstEmitted =>
        /\ result[1].description
             = (IF RawOf("description").k = "string" THEN RawOf("description").v ELSE <<>>)
        /\ result[1].triggers
             = (IF StringArray(RawOf("triggers")) THEN Strings(RawOf("triggers").v) ELSE <<>>)
        /\ result[1].skills
             = (IF StringArray(RawOf("skills")) THEN Strings(RawOf("skills").v) ELSE <<>>)

\* C20: the emitted description is "" when the node's description is
\* absent, null, "", 0 or false, and String(description) otherwise; emitted
\* triggers and skills are the empty sequence when the field is absent or
\* no array, and otherwise hold String(element) for every element of the
\* array, in order, so that an array of strings is carried over unchanged.
C20_FieldsCoerced ==
    FirstEmitted =>
        /\ result[1].description
             = (IF Falsy(RawOf("description")) THEN <<>> ELSE JSString(RawOf("description")))
        /\ result[1].triggers
             = (IF RawOf("triggers").k = "array" THEN Strings(RawOf("triggers").v) ELSE <<>>)
        /\ result[1].skills
             = (IF RawOf("skills").k = "array" THEN Strings(RawOf("skills").v) ELSE <<>>)

\* a description that is a number and triggers that are no strings have
\* been emitted as their texts, beside skills that are no array
C20_Witness ==
    /\ FirstEmitted
    /\ RawOf("description") = Num(5)
    /\ result[1].description = <<"5">>
    /\ RawOf("triggers") = Arr(<<Num(1), Null>>)
    /\ result[1].triggers = << <<"1">>, <<"null">> >>
    /\ RawOf("skills") = Str(<<"x">>)
    /\ result[1].skills = <<>>

----------------------------------------------------------------------------
(* normalizeTools applied to the tools array of one raw agent.             *)

ToolValues ==
    {Str(<<"n", " ", "t">>), Str(<<"n", "\t", "t">>), Str(<<"n", "t">>), Str(<<>>),
     Str(<<" ", "t">>),
     Obj(NoFields), Obj("name" :> Str(<<"t">>)), Obj("command" :> Str(<<"c">>)),
     Obj("description" :> Str(<<"d">>)),
     Obj(("name" :> Str(<<"t">>)) @@ ("command" :> Str(<<"c">>))
         @@ ("description" :> Str(<<"d">>))),
     Obj("name" :> Num(5)), Num(3), Null}

ToolInputs ==
    {<<Obj(("name" :> Str(<<"p">>)) @@ ("tools" :> Arr(ts)))>> :
        ts \in SeqsUpTo(ToolValues, MaxTools)}

InitTools ==
    /\ agents \in ToolInputs
    /\ result = <<>>
    /\ call = Idle
    /\ file = NoFile
    /\ dryRun = FALSE
    /\ out = <<>>
    /\ scored = <<>>
    /\ threw = FALSE
    /\ pc = "none"
    /\ cmd = NoCommand

SpecTools == InitTools /\ [][NextFlatten]_vars

\* the raw tools of the first element, and the member of a raw tool
RawTools == agents[1].v["tools"].v
Member(tool, key) == IF key \in DOMAIN tool.v THEN tool.v[key] ELSE Undef

\* the characters of s before its first character of the set seps
Before1(s, seps) ==
    LET at == {i \in 1..Len(s) : s[i] \in seps}
    IN IF at = {} THEN s
       ELSE SubSeq(s, 1, (CHOOSE i \in at : \A j \in at : i <= j) - 1)

\* String(x) of the first of the values that is truthy, else the default
FirstTruthy(xs, default) ==
    LET at == {i \in 1..Len(xs) : ~Falsy(xs[i])}
    IN IF at = {} THEN default
       ELSE JSString(xs[CHOOSE i \in at : \A j \in at : i <= j])

\* C21 as claimed: a string tool gets as name its part before the first
\* whitespace character and itself as command and description; an object
\* tool has a missing name replaced by "unknown" and a missing command or
\* description replaced by the empty string.
C21_ToolsAsClaimed ==
    (Flattened /\ ~threw) =>
        /\ Len(result[1].tools) = Len(RawTools)
        /\ \A i \in 1..Len(RawTools) :
              LET raw == RawTools[i]
                  tool == result[1].tools[i]
              IN /\ raw.k = "string" =>
                       /\ tool.name = Before1(raw.v, {" ", "\t"})
                       /\ tool.command = raw.v
                       /\ tool.description = raw.v
                 /\ raw.k = "object" =>
                       /\ tool.name = FirstTruthy(<<Member(raw, "name")>>, <<"unknown">>)
                       /\ tool.command = FirstTruthy(<<Member(raw, "command")>>, <<>>)
                       /\ tool.description
                            = FirstTruthy(<<Member(raw, "description")>>, <<>>)

\* C21: a string tool gets as name its part before the first space
\* character (no other whitespace splits it) and itself as command and
\* description; an object tool gets as name String(name), or "unknown" when
\* the name is absent or falsy, and as command and as description the
\* String of the field, or of the name when the field is absent or falsy,
\* or the empty string when the name is absent or falsy too.
C21_ToolsNormalized ==
    (Flattened /\ ~threw) =>
        /\ Len(result[1].tools) = Len(RawTools)
        /\ \A i \in 1..Len(RawTools) :
              LET raw == RawTools[i]
                  tool == result[1].tools[i]
              IN /\ raw.k = "string" =>
                       /\ tool.name = Before1(raw.v, {" "})
                       /\ tool.command = raw.v
                       /\ tool.description = raw.v
                 /\ raw.k = "object" =>
                       /\ tool.name = FirstTruthy(<<Member(raw, "name")>>, <<"unknown">>)
                       /\ tool.command
                            = FirstTruthy(<<Member(raw, "command"), Member(raw, "name")>>, <<>>)
                       /\ tool.description
                            = FirstTruthy(<<Member(raw, "description"), Member(raw, "name")>>,
                                          <<>>)

\* a string tool with a space and one with a tab have been normalised,
\* the latter keeping the tab in its name
C21_Witness ==
    /\ Flattened
    /\ Len(RawTools) = 2
    /\ RawTools[1] = Str(<<"n", " ", "t">>)
    /\ result[1].tools[1].name = <<"n">>
    /\ RawTools[2] = Str(<<"n", "\t", "t">>)
    /\ result[1].tools[2].name = <<"n", "\t", "t">>

----------------------------------------------------------------------------
(* The parentAgent links of the emitted records.                           *)

\* the records named by the parentAgent of record i
ParentsOf(i) == {j \in 1..Len(result) : result[i].parentAgent = Str(result[j].name)}

\* from record i, a record with isSubAgent = false is reached in at most
\* steps steps, every record on the way having exactly one parent
RECURSIVE ReachesRoot(_, _)
ReachesRoot(i, steps) ==
    \/ ~result[i].isSubAgent
    \/ /\ steps > 0
       /\ Cardinality(ParentsOf(i)) = 1
       /\ ReachesRoot(CHOOSE j \in ParentsOf(i) : TRUE, steps - 1)

\* C22: the emitted records form a forest: every record with isSubAgent =
\* true has exactly one parent record, named by its parentAgent, and the
\* parentAgent links lead from it, in fewer steps than there are records
\* and so without a cycle, to a record with isSubAgent = false.
C22_Forest ==
    Flattened => \A i \in 1..Len(result) : ReachesRoot(i, Len(result) - 1)

----------------------------------------------------------------------------
(* Letter case in search.                                                  *)

UpperChar(c) == CASE c = "a" -> "A" [] c = "b" -> "B" [] OTHER -> c

toUpperCase(s) == [i \in 1..Len(s) |-> UpperChar(s[i])]

\* the entry with the letters of its name, description, triggers and
\* category in upper case
UpperEntry(e) ==
    [key \in DOMAIN e |->
        CASE key \in {"name", "description", "category"} -> toUpperCase(e[key])
          [] key = "triggers" -> [i \in 1..Len(e.triggers) |-> toUpperCase(e.triggers[i])]
          [] OTHER -> e[key]]

UpperEntries(entries) == [i \in 1..Len(entries) |-> UpperEntry(entries[i])]

\* the queries of the pool that differ from the query at most in letter case
SameButCase(query) == {q \in Queries : toLowerCase(q) = toLowerCase(query)}

\* C23: a search with a query that differs from the query only in letter
\* case returns the same list; with the name, description, triggers and
\* category of the entries of the file put in upper case, every entry keeps
\* its score and the search returns the same entries at the same places.
C23_CaseInsensitive ==
    Searched =>
        LET all == FileEntries
            upper == WriteFile(file, Content(UpperEntries(all)))
        IN /\ \A q \in SameButCase(call.query) :
                 Ranked(Scored(file, q, call.options), call.options) = out
           /\ \A i \in 1..Len(all) :
                 Score(UpperEntry(all[i]), TheQuery) = Score(all[i], TheQuery)
           /\ file.exists =>
                 Ranked(Scored(upper, call.query, call.options), call.options)
                     = UpperEntries(out)

\* the query has an upper-case letter, and entries with lower-case and with
\* upper-case letters in name, description and trigger are returned
C23_Witness ==
    /\ Searched
    /\ call.query = <<"A">>
    /\ Len(out) >= 3
    /\ \E m \in 1..Len(out) : out[m].name = <<"a">>
    /\ \E m \in 1..Len(out) : out[m].name = <<"A">>
    /\ \E m \in 1..Len(out) : out[m].description = <<"a">> /\ (\E t \in 1..Len(out[m].triggers) : out[m].triggers[t] = <<"A">>)

----------------------------------------------------------------------------
(* assimilateCommand on repositories of every license, with assets of an   *)
(* earlier run under the output path.                                      *)

\* the licenses the README lists as supported, by SPDX identifier, each with
\* a license text that carries one of the patterns of its table entry
SupportedLicenses ==
    { [id |-> "MIT", text |-> "MIT License"],
      [id |-> "ISC", text |-> "ISC License"],
      [id |-> "Unlicense", text |-> "This is free and unencumbered software"],
      [id |-> "CC0-1.0", text |-> "CC0 1.0 Universal"],
      [id |-> "Apache-2.0", text |-> "Apache License"],
      [id |-> "MPL-2.0", text |-> "Mozilla Public License"],
      [id |-> "BSD-2-Clause", text |-> "BSD 2-Clause License"],
      [id |-> "BSD-3-Clause", text |-> "BSD 3-Clause License"],
      [id |-> "0BSD", text |-> "Zero-Clause BSD"],
      [id |-> "GPL-2.0", text |-> "GNU General Public License v2"],
      [id |-> "GPL-3.0", text |-> "GNU General Public License v3"],
      [id |-> "LGPL-2.1", text |-> "GNU Lesser General Public License v2.1"],
      [id |-> "LGPL-3.0", text |-> "GNU Lesser General Public License v3"],
      [id |-> "AGPL-3.0", text |-> "GNU Affero General Public License"] }

\* a repository of a supported license: GitHub reports its identifier, and
\* the working copy has the license text, or names the license in a manifest
SupportedRepos ==
    {Repo(l.id, "LICENSE" :> l.text) : l \in SupportedLicenses}
    \cup {Repo(l.id, "package.json" :> [license |-> l.id]) : l \in SupportedLicenses}
    \cup {Repo(l.id, "pyproject.toml" :> [license |-> l.id]) : l \in SupportedLicenses}

\* repositories without a license, with a proprietary one, with a license
\* text the table does not know, with a license outside the README's list
OtherRepos ==
    { NoLicenseRepo,
      Repo("NOASSERTION", "LICENSE" :> "Copyright. All rights reserved."),
      Repo("NOASSERTION", "COPYING.txt" :> "Terms of use"),
      Repo("NOASSERTION", ("LICENCE" :> "Terms of use") @@ ("package.json" :> [license |-> "MIT"])),
      Repo("MIT", "package.json" :> [license |-> "mit"]),
      Repo("WTFPL", "license.md" :> "WTFPL"),
      [files |-> ("package.json" :> [version |-> "1"])] }

RepoPool == SupportedRepos \cup OtherRepos

\* an asset of an earlier run
EarlierDisks ==
    { {}, {[path |-> <<".github/skills/", "b", "/SKILL.md">>, content |-> [old |-> TRUE]]} }

\* analysis results of one skill and at most one agent
GateAnalyses == {args \in AnalysisArgs : Len(args.skills) = 1 /\ Len(args.agents) <= 1}

InitGate ==
    /\ cmd \in {Command(remote, repo, analysis, hooks, disk) :
                   remote \in BOOLEAN, repo \in RepoPool, analysis \in GateAnalyses,
                   hooks \in {<<>>, <<PostGenerateHook>>}, disk \in EarlierDisks}
    /\ dryRun \in BOOLEAN
    /\ file \in EarlierFiles
    /\ pc = "analyze"
    /\ call = Idle
    /\ out = <<>>
    /\ scored = <<>>
    /\ agents = <<>>
    /\ result = <<>>
    /\ threw = FALSE

SpecGate == InitGate /\ [][NextAssimilate]_vars

\* the license check of the run has found the license permissive
Permissive == IsPermissive(cmd.remote, cmd.repo)

\* the statements after the license check
AfterGate == pc \in {"generate", "registry", "hooks"}

\* C24: in a run that is no dry run, remote or local, generation, registry
\* build and hooks are reached only with a license found permissive; with
\* none, or one that is not permissive, no step writes an asset or the
\* registry file, builds the registry or runs a hook, and the exit code is 1
\* from the license check on.
C24_GateBlocks ==
    /\ []((~dryRun /\ (AfterGate \/ call.op = "build" \/ cmd.generated /= <<>>
                       \/ cmd.hookRuns /= <<>>)) => Permissive)
    /\ []((~dryRun /\ ~Permissive /\ pc \notin {"analyze", "license"}) => cmd.exitCode = 1)
    /\ [][(~dryRun /\ ~Permissive) =>
             (cmd'.disk = cmd.disk /\ file' = file /\ call' = call
              /\ cmd'.hookRuns = cmd.hookRuns /\ cmd'.generated = cmd.generated)]_vars

\* a remote and a local run have ended at the gate, assets and registry file
\* of the earlier run as they were
C24_Witness ==
    /\ ~dryRun
    /\ ~Permissive
    /\ pc = "blocked"
    /\ cmd.exitCode = 1
    /\ cmd.disk /= {}
    /\ file.exists
    /\ ~cmd.remote

\* a permissive run has generated, built and run the hooks
C24_WitnessPassed ==
    /\ ~dryRun
    /\ Permissive
    /\ pc = "returned"
    /\ cmd.remote
    /\ cmd.hookRuns = <<"post-generate">>

\* C25: a run, no dry run, on a repository of a license the README lists as
\* supported passes the license gate, on the GitHub-URL path and on the
\* local path, and the two paths judge the repository alike.
C25_SupportedPass ==
    (cmd.repo \in SupportedRepos /\ ~dryRun /\ pc \notin {"analyze", "license"}) =>
        /\ cmd.exitCode = 0
        /\ pc /= "blocked"
        /\ IsPermissive(TRUE, cmd.repo) = IsPermissive(FALSE, cmd.repo)

\* the paths the generator reports for the analysis of the run
ExpectedFiles ==
    LET sk == cmd.analysis.skills
        ag == cmd.analysis.agents
        hk == cmd.hooks
    IN [i \in 1..(Len(sk) + 2 * Len(ag) + Len(hk)) |->
          IF i <= Len(sk)
          THEN <<".github/skills/">> \o sk[i].name \o <<"/SKILL.md">>
          ELSE IF i <= Len(sk) + 2 * Len(ag)
          THEN LET a == ag[(i - Len(sk) + 1) \div 2]
               IN <<".github/agents/">> \o a.name
                  \o (IF (i - Len(sk)) % 2 = 1 THEN <<"/agent.yaml">> ELSE <<".agent.md">>)
          ELSE <<".github/hooks/">> \o hk[i - Len(sk) - 2 * Len(ag)].name \o <<".yaml">>]

\* C26: in a dry run, whatever the analysis and the license, no step changes
\* an entry under the output path or the registry file or runs a hook, the
\* run is not stopped at the gate, and the generator reports the paths it
\* reports in a real run: one per skill, two per agent, one per hook.
C26_DryRunWritesNothing ==
    /\ [](dryRun => (cmd.hookRuns = <<>> /\ cmd.exitCode = 0 /\ pc /= "blocked"))
    /\ []((pc \in {"registry", "hooks", "returned"}) => cmd.generated = ExpectedFiles)
    /\ [][dryRun => (cmd'.disk = cmd.disk /\ file' = file)]_vars

\* a dry run on a repository without a license has returned with the list
\* of files, the asset and the registry file of the earlier run in place
C26_Witness ==
    /\ dryRun
    /\ ~Permissive
    /\ pc = "returned"
    /\ Len(cmd.generated) = 4
    /\ cmd.disk \in EarlierDisks \ {{}}
    /\ file.exists

----------------------------------------------------------------------------
(* What search returns against what the query occurs in.                   *)

\* the lower-cased query occurs in the name, the description, a trigger or
\* the category of the entry
Matches(entry, queryLower) ==
    \/ includes(toLowerCase(entry.name), queryLower)
    \/ includes(toLowerCase(entry.description), queryLower)
    \/ \E t \in 1..Len(entry.triggers) : includes(toLowerCase(entry.triggers[t]), queryLower)
    \/ "category" \in DOMAIN entry /\ includes(toLowerCase(entry.category), queryLower)

\* C27: every entry search returns has the query, letter case aside, in its
\* name, its description, one of its triggers or its category; when the
\* query occurs in no entry of the file the result is empty.
C27_OnlyMatches ==
    Searched =>
        /\ \A m \in 1..Len(out) : Matches(out[m], TheQuery)
        /\ (\A i \in 1..Len(FileEntries) : ~Matches(FileEntries[i], TheQuery)) => out = <<>>

----------------------------------------------------------------------------
(* HookRunner.  The hooks directory is the list of its files in the order  *)
(* readdir gives them, each with what yaml.parse makes of it; fs is the    *)
(* set of files under the root path that commands and conditions touch.    *)
(* The log holds every execSync call in the order made.                    *)

MaxHooks == 3

startsWith(s, prefix) == Len(s) >= Len(prefix) /\ SubSeq(s, 1, Len(prefix)) = prefix

endsWith(s, suffix) ==
    Len(s) >= Len(suffix) /\ SubSeq(s, Len(s) - Len(suffix) + 1, Len(s)) = suffix

\* s.slice(n)
SliceFrom(s, n) == SubSeq(s, n + 1, Len(s))

\* execSync(command): the shell runs the command on the files; a command
\* that exits with a status other than 0 makes execSync throw
Exec(command, fs) ==
    CASE command = "true" -> [ok |-> TRUE, fs |-> fs, output |-> ""]
      [] command = "echo hi" -> [ok |-> TRUE, fs |-> fs, output |-> "hi"]
      [] command = "rm flag" -> [ok |-> "flag" \in fs, fs |-> fs \ {"flag"}, output |-> ""]
      [] command = "touch flag" -> [ok |-> TRUE, fs |-> fs \cup {"flag"}, output |-> ""]
      [] OTHER -> [ok |-> FALSE, fs |-> fs, output |-> ""]

\* the log with one more execSync call, made for hook k
Logged(env, k, command, as, fs) ==
    [fs |-> fs, log |-> Append(env.log, [hook |-> k, run |-> command, as |-> as])]

\* evaluateCondition(condition)
evaluateCondition(condition, k, env) ==
    IF startsWith(condition, "file:")
    THEN [met |-> SliceFrom(condition, 5) \in env.fs, env |-> env]
    ELSE IF startsWith(condition, "command:")
    THEN LET x == Exec(SliceFrom(condition, 8), env.fs)
         IN [met |-> x.ok, env |-> Logged(env, k, SliceFrom(condition, 8), "condition", x.fs)]
    ELSE [met |-> TRUE, env |-> env]

\* outputs.join("\n")
RECURSIVE JoinOutputs(_)
JoinOutputs(outputs) ==
    IF outputs = <<>> THEN ""
    ELSE IF Len(outputs) = 1 THEN outputs[1]
    ELSE outputs[1] \o "\n" \o JoinOutputs(Tail(outputs))

Skipped == "Skipped: condition not met"

\* if (hook.condition)
HasCondition(hook) == "condition" \in DOMAIN hook /\ hook.condition /= ""

\* the loop of runHook from command i on: the condition is evaluated before
\* every command
RECURSIVE RunFrom(_, _, _, _, _)
RunFrom(hook, k, i, env, outputs) ==
    IF i > Len(hook.commands)
    THEN [result |-> [hook |-> hook.name, success |-> TRUE, output |-> JoinOutputs(outputs)],
          env |-> env]
    ELSE LET cond == IF HasCondition(hook) THEN evaluateCondition(hook.condition, k, env)
                     ELSE [met |-> TRUE, env |-> env]
         IN IF ~cond.met
            THEN [result |-> [hook |-> hook.name, success |-> TRUE, output |-> Skipped],
                  env |-> cond.env]
            ELSE LET x == Exec(hook.commands[i], cond.env.fs)
                     after == Logged(cond.env, k, hook.commands[i], "command", x.fs)
                 IN IF ~x.ok
                    THEN [result |-> [hook |-> hook.name, success |-> FALSE,
                                      error |-> "Command failed: " \o hook.commands[i]],
                          env |-> after]
                    ELSE RunFrom(hook, k, i + 1, after, Append(outputs, x.output))

\* runHook(hook), hook being the k-th hook loaded
runHook(hook, k, env) == RunFrom(hook, k, 1, env, <<>>)

\* for (const command of hook.commands) raises when the hook has no commands
runHookThrows(hook) == "commands" \notin DOMAIN hook

\* yaml.parse raises, or gives null so that hookDef.event raises
ParseAborts(def) == "yaml" \in DOMAIN def

IsYamlFile(name) == endsWith(name, ".yaml") \/ endsWith(name, ".yml")

\* the loop of loadHooks: it ends at the first file that raises
RECURSIVE LoadFrom(_, _)
LoadFrom(files, event) ==
    IF files = <<>> THEN <<>>
    ELSE LET f == Head(files)
         IN IF ~IsYamlFile(f.file) THEN LoadFrom(Tail(files), event)
            ELSE IF ParseAborts(f.def) THEN <<>>
            ELSE (IF "event" \in DOMAIN f.def /\ f.def.event = event THEN <<f.def>> ELSE <<>>)
                 \o LoadFrom(Tail(files), event)

\* loadHooks(event): no hooks when the directory cannot be read
loadHooks(dir, event) == IF dir.exists THEN LoadFrom(dir.files, event) ELSE <<>>

\* the break of execute that is never taken
StopsAfterNone(hookResult) == FALSE

\* if (!result.success) break
StopsAfter(hookResult) == ~hookResult.success

\* the loop of execute from hook k on
RECURSIVE ExecuteFrom(_, _, _, _)
ExecuteFrom(hooks, k, env, results) ==
    IF k > Len(hooks) THEN [results |-> results, env |-> env, threw |-> FALSE]
    ELSE IF runHookThrows(hooks[k]) THEN [results |-> results, env |-> env, threw |-> TRUE]
    ELSE LET r == runHook(hooks[k], k, env)
         IN IF StopsAfter(r.result)
            THEN [results |-> Append(results, r.result), env |-> r.env, threw |-> FALSE]
            ELSE ExecuteFrom(hooks, k + 1, r.env, Append(results, r.result))

\* hook definitions: succeeding, failing at the first and at a later
\* command, of another event, and with conditions of every form
HookFiles ==
    { [file |-> "ok.yaml",
       def |-> [name |-> "ok", event |-> "post-generate", commands |-> <<"echo hi", "true">>]],
      [file |-> "fail.yml",
       def |-> [name |-> "fail", event |-> "post-generate",
                commands |-> <<"true", "false", "touch flag">>]],
      [file |-> "lint.yaml",
       def |-> [name |-> "lint", event |-> "pre-commit", commands |-> <<"false">>]],
      [file |-> "notes.txt",
       def |-> [name |-> "notes", event |-> "post-generate", commands |-> <<"touch flag">>]],
      [file |-> "empty.yaml", def |-> [yaml |-> "null"]],
      [file |-> "bare.yaml", def |-> [name |-> "bare", event |-> "post-generate"]],
      [file |-> "once.yaml",
       def |-> [name |-> "once", event |-> "post-generate", condition |-> "file:flag",
                commands |-> <<"rm flag", "true">>]],
      [file |-> "iffile.yaml",
       def |-> [name |-> "iffile", event |-> "post-generate", condition |-> "file:flag",
                commands |-> <<"true">>]],
      [file |-> "never.yaml",
       def |-> [name |-> "never", event |-> "post-generate", condition |-> "command:false",
                commands |-> <<"touch flag">>]],
      [file |-> "ifcmd.yaml",
       def |-> [name |-> "ifcmd", event |-> "post-generate", condition |-> "command:true",
                commands |-> <<"false", "true">>]],
      [file |-> "plain.yaml",
       def |-> [name |-> "plain", event |-> "post-generate", condition |-> "always",
                commands |-> <<"true">>]],
      [file |-> "blank.yaml",
       def |-> [name |-> "blank", event |-> "pre-commit", condition |-> "",
                commands |-> <<"true">>]] }

\* the directories: absent, or up to MaxHooks files of different names
HookDirs ==
    {[exists |-> FALSE, files |-> <<>>]}
    \cup {[exists |-> TRUE, files |-> fl] :
            fl \in {s \in SeqsUpTo(HookFiles, MaxHooks) :
                      \A i, j \in 1..Len(s) : i /= j => s[i] /= s[j]}}

HookEvents == {"pre-commit", "post-generate"}

InitHooks ==
    /\ cmd \in [target : {"hooks"}, dir : HookDirs, fs : {{}, {"flag"}}]
    /\ call = Idle
    /\ out = <<>>
    /\ result = <<>>
    /\ threw = FALSE
    /\ pc = "none"
    /\ file = NoFile
    /\ dryRun = FALSE
    /\ scored = <<>>
    /\ agents = <<>>

\* HookRunner.execute(event): out is the result list, result the log
Execute(event) ==
    /\ call = Idle
    /\ LET done == ExecuteFrom(loadHooks(cmd.dir, event), 1, [fs |-> cmd.fs, log |-> <<>>], <<>>)
       IN /\ out' = IF done.threw THEN <<>> ELSE done.results
          /\ result' = done.env.log
          /\ threw' = done.threw
          /\ cmd' = [cmd EXCEPT !.fs = done.env.fs]
    /\ call' = [op |-> "execute", event |-> event]
    /\ UNCHANGED <<file, dryRun, scored, agents, pc>>

NextHooks == \E event \in HookEvents : Execute(event)

SpecHooks == InitHooks /\ [][NextHooks]_vars

----------------------------------------------------------------------------
(* Properties of execute and runHook.                                      *)

Executed == call.op = "execute"

\* the file holds a hook of the event asked for
IsHookFor(f) ==
    IsYamlFile(f.file) /\ "event" \in DOMAIN f.def /\ f.def.event = call.event

\* the hooks of the event asked for, in the order of the directory
Asked == IF cmd.dir.exists THEN SelectSeq(cmd.dir.files, IsHookFor) ELSE <<>>

\* the commands of the k-th hook that were executed, in the order executed
CommandsOf(k) ==
    LET own(e) == e.hook = k /\ e.as = "command"
        entries == SelectSeq(result, own)
    IN [i \in 1..Len(entries) |-> entries[i].run]

IsPrefix(s, t) == Len(s) <= Len(t) /\ \A i \in 1..Len(s) : s[i] = t[i]

\* C28: execute(event) runs hooks of that event only, one after another in
\* the order loaded, and stops at the first hook that fails: every result
\* but the last is a success, every command executed is a command of a hook
\* that has a result, and when no hook fails and every file is read, every
\* hook of the event has a result.
C28_StopsAtFirstFailure ==
    (Executed /\ ~threw) =>
        /\ Len(out) <= Len(Asked)
        /\ \A k \in 1..Len(out) : out[k].hook = Asked[k].def.name
        /\ \A k \in 1..(Len(out) - 1) : out[k].success
        /\ \A e \in 1..Len(result) : result[e].hook \in 1..Len(out)
        /\ \A e1, e2 \in 1..Len(result) : e1 < e2 => result[e1].hook <= result[e2].hook
        /\ \A k \in 1..Len(out) : IsPrefix(CommandsOf(k), Asked[k].def.commands)
        /\ ((\A k \in 1..Len(out) : out[k].success)
            /\ (\A i \in 1..Len(cmd.dir.files) : ~ParseAborts(cmd.dir.files[i].def)))
              => Len(out) = Len(Asked)

\* three hooks of the event: the first has run, the second has failed at
\* its second command, no command of the third has been executed
C28_Witness ==
    /\ Executed
    /\ Len(Asked) = 3
    /\ Len(out) = 2
    /\ out[1].success
    /\ ~out[2].success
    /\ CommandsOf(1) = <<"echo hi", "true">>
    /\ CommandsOf(2) = <<"true", "false">>
    /\ \A e \in 1..Len(result) : result[e].hook /= 3

\* C29: a hook reported as "Skipped: condition not met" has had none of
\* its commands executed; the commands of a hook run in list order, no
\* command runs after one that fails, a hook that fails has had a command
\* executed, and a hook that succeeds without being skipped has had all.
C29_SkippedRunsNothing ==
    (Executed /\ ~threw) =>
        \A k \in 1..Len(out) :
            LET ran == CommandsOf(k)
                skipped == "output" \in DOMAIN out[k] /\ out[k].output = Skipped
            IN /\ skipped => ran = <<>>
               /\ IsPrefix(ran, Asked[k].def.commands)
               /\ \A i \in 1..(Len(ran) - 1) : ran[i] /= "false"
               /\ ~out[k].success => ran /= <<>>
               /\ (out[k].success /\ ~skipped) => ran = Asked[k].def.commands

----------------------------------------------------------------------------
(* Analyzer.analyze.  pc is the await the function stands at; cmd holds    *)
(* the client, the promise done, its timer, the content of the last        *)
(* assistant.message and the value the function is about to return.  The   *)
(* SDK settles each call either way and emits events in any order while    *)
(* the listener is registered.                                             *)

MaxEvents == 3

Fallback == [kind |-> "fallback"]

\* the texts of an assistant.message: without JSON, with agents that
\* flatten, with agents on which flattenAgents raises
Responses ==
    { [json |-> FALSE],
      [json |-> TRUE, agents |-> <<Obj("name" :> Str(<<"a">>))>>],
      [json |-> TRUE, agents |-> <<Obj("name" :> Obj("toString" :> Num(1)))>>] }

NoResponse == [json |-> FALSE]

\* parseAnalysisResponse(responseContent): the fallback when the text holds
\* no JSON or anything in the try block raises
parseAnalysisResponse(response) ==
    IF ~response.json THEN Fallback
    ELSE IF flattenThrows(response.agents) THEN Fallback
    ELSE [kind |-> "parsed", agents |-> flattenAgents(response.agents)]

InitAnalyze ==
    /\ cmd = [target |-> "analyze", client |-> "new", done |-> "none", timer |-> "none",
              responseContent |-> NoResponse, eventCount |-> 0, retval |-> Fallback]
    /\ pc = "start"
    /\ call = [op |-> "analyze"]
    /\ result = <<>>
    /\ out = <<>>
    /\ threw = FALSE
    /\ file = NoFile
    /\ dryRun = FALSE
    /\ scored = <<>>
    /\ agents = <<>>

AnalyzeFrame == UNCHANGED <<agents, file, dryRun, call, out, scored, threw>>

\* analyze returns the value
Returns(value) == pc' = "returned" /\ result' = <<value>>

\* await this.client.start() resolves
StartOk ==
    /\ pc = "start"
    /\ pc' = "createSession"
    /\ cmd' = [cmd EXCEPT !.client = "started"]
    /\ UNCHANGED result
    /\ AnalyzeFrame

\* await this.client.start() rejects: the fallback is returned from the
\* first catch, outside the try with the finally clause
StartFails ==
    /\ pc = "start"
    /\ Returns(Fallback)
    /\ UNCHANGED cmd
    /\ AnalyzeFrame

\* createSession and gatherFileSamples have resolved: the promise done is
\* made, its timer set, the listener registered, and session.send called
CreateSessionOk ==
    /\ pc = "createSession"
    /\ pc' = "send"
    /\ cmd' = [cmd EXCEPT !.done = "pending", !.timer = "armed"]
    /\ UNCHANGED result
    /\ AnalyzeFrame

\* createSession or gatherFileSamples rejects
CreateSessionFails ==
    /\ pc = "createSession"
    /\ pc' = "catch"
    /\ UNCHANGED <<cmd, result>>
    /\ AnalyzeFrame

\* the listener is called: from session.on until the session is destroyed
Listening == pc \in {"send", "waiting", "destroy"} /\ cmd.eventCount < MaxEvents

\* a promise settles once
Settle(done, as) == IF done = "pending" THEN as ELSE done

\* event assistant.message
MessageEvent(content) ==
    /\ Listening
    /\ cmd' = [cmd EXCEPT !.responseContent = content, !.eventCount = @ + 1]
    /\ UNCHANGED <<pc, result>>
    /\ AnalyzeFrame

\* event assistant.message_delta
DeltaEvent ==
    /\ Listening
    /\ cmd' = [cmd EXCEPT !.eventCount = @ + 1]
    /\ UNCHANGED <<pc, result>>
    /\ AnalyzeFrame

\* event session.idle: clearTimeout, resolve
IdleEvent ==
    /\ Listening
    /\ cmd' = [cmd EXCEPT !.eventCount = @ + 1, !.timer = "cleared",
                          !.done = Settle(@, "resolved")]
    /\ UNCHANGED <<pc, result>>
    /\ AnalyzeFrame

\* event error: clearTimeout, reject
ErrorEvent ==
    /\ Listening
    /\ cmd' = [cmd EXCEPT !.eventCount = @ + 1, !.timer = "cleared",
                          !.done = Settle(@, "rejected")]
    /\ UNCHANGED <<pc, result>>
    /\ AnalyzeFrame

\* the 120 s timer fires while analyze runs: reject
TimerFires ==
    /\ cmd.timer = "armed"
    /\ pc \in {"send", "waiting", "destroy", "catch", "finally"}
    /\ cmd' = [cmd EXCEPT !.timer = "fired", !.done = Settle(@, "rejected")]
    /\ UNCHANGED <<pc, result>>
    /\ AnalyzeFrame

\* done has been rejected while analyze awaits session.send, a handler not
\* yet attached to done: when the microtask queue is drained before send
\* resolves, Node raises the unhandled rejection as an uncaught exception
\* and the process ends
UnhandledRejection ==
    /\ pc = "send"
    /\ cmd.done = "rejected"
    /\ pc' = "crashed"
    /\ UNCHANGED <<cmd, result>>
    /\ AnalyzeFrame

\* await session.send(...) resolves: analyze goes on to await done
SendOk ==
    /\ pc = "send"
    /\ pc' = "waiting"
    /\ UNCHANGED <<cmd, result>>
    /\ AnalyzeFrame

\* await session.send(...) rejects
SendFails ==
    /\ pc = "send"
    /\ pc' = "catch"
    /\ UNCHANGED <<cmd, result>>
    /\ AnalyzeFrame

\* await done, settled: the response is parsed, or the rejection caught
AwaitDone ==
    /\ pc = "waiting"
    /\ cmd.done \in {"resolved", "rejected"}
    /\ IF cmd.done = "resolved"
       THEN /\ pc' = "destroy"
            /\ cmd' = [cmd EXCEPT !.retval = parseAnalysisResponse(cmd.responseContent)]
       ELSE /\ pc' = "catch"
            /\ UNCHANGED cmd
    /\ UNCHANGED result
    /\ AnalyzeFrame

\* await session.destroy() resolves: return result, through the finally
DestroyOk ==
    /\ pc = "destroy"
    /\ pc' = "finally"
    /\ UNCHANGED <<cmd, result>>
    /\ AnalyzeFrame

\* await session.destroy() rejects
DestroyFails ==
    /\ pc = "destroy"
    /\ pc' = "catch"
    /\ UNCHANGED <<cmd, result>>
    /\ AnalyzeFrame

\* catch (error) { return this.generateFallbackAnalysis(scanResult); }
Catch ==
    /\ pc = "catch"
    /\ pc' = "finally"
    /\ cmd' = [cmd EXCEPT !.retval = Fallback]
    /\ UNCHANGED result
    /\ AnalyzeFrame

\* finally: await this.client.stop(), a rejection of it ignored
Finally ==
    /\ pc = "finally"
    /\ cmd' = [cmd EXCEPT !.client = "stopped"]
    /\ Returns(cmd.retval)
    /\ AnalyzeFrame

\* what the function does by itself once the SDK call it awaits is settled
AnalyzeSteps ==
    \/ StartOk
    \/ StartFails
    \/ CreateSessionOk
    \/ CreateSessionFails
    \/ SendOk
    \/ SendFails
    \/ AwaitDone
    \/ DestroyOk
    \/ DestroyFails
    \/ Catch
    \/ Finally

NextAnalyze ==
    \/ AnalyzeSteps
    \/ \E content \in Responses : MessageEvent(content)
    \/ DeltaEvent
    \/ IdleEvent
    \/ ErrorEvent
    \/ TimerFires
    \/ UnhandledRejection

SpecAnalyze == InitAnalyze /\ [][NextAnalyze]_vars

\* every SDK call that analyze awaits settles, and the timer, once set and
\* not cleared, fires
SpecAnalyzeFair == SpecAnalyze /\ WF_vars(AnalyzeSteps) /\ WF_vars(TimerFires)

\* C30: analyze neither rejects nor ends otherwise than by returning, and
\* it returns in the end; it returns the fallback when the start failed or
\* done was rejected by an error event or the timer, and a client that was
\* started has been stopped when it returns.
C30_AlwaysReturns ==
    /\ [](pc \notin {"rejected", "crashed"})
    /\ <>(pc = "returned")
    /\ []((pc = "returned" /\ (cmd.client = "new" \/ cmd.done = "rejected"))
             => result = <<Fallback>>)
    /\ [](pc = "returned" => cmd.client /= "started")

====
